---------------------------- MODULE Spec2Model ----------------------------
(***************************************************************************)
(* Trade-cost simulator: the order book (src/data/orderbook.py), the cost  *)
(* pipeline (src/models/simulator.py), the fee table                       *)
(* (src/models/fee_model.py) and the two threads of the application        *)
(* (src/main.py): the feed thread that applies snapshots and the dashboard *)
(* thread that asks for cost estimates.                                    *)
(*                                                                         *)
(* Numbers.  Prices and quantities are floats in the code; the model uses  *)
(* integers for them (a snapshot carries decimal strings such as "1" or    *)
(* "1.0", parsed by FloatOf) and exact rationals <<n, d>> where the code   *)
(* divides.  Levels of a book carry sizes >= 0.                            *)
(* Python's None is the empty tuple <<>>, a present value v is <<v>>.      *)
(***************************************************************************)
EXTENDS Integers, Sequences, FiniteSets, TLC

VARIABLES
    orderbook,   \* TradeSimulator.orderbook: the Orderbook object's fields
    fee_tiers,   \* FeeModel.fee_tiers: exchange -> market type -> bucket -> tier -> rate
    sim_times,   \* TradeSimulator.processing_times
    wire,        \* a snapshot message handed to update and not yet applied (None: none)
    feed,        \* the feed thread: its position in update_orderbook, its argument and locals
    reader,      \* the dashboard thread: its position in simulate_market_order and its locals
    ret,         \* the last completed call of a metric getter: [op, args, val]
    mode,        \* which entry points the run exercises (fixed by Init)
    models,      \* the SlippageModel, MakerTakerModel and AlmgrenChrissModel objects
    comparison,  \* the thread in compare_risk_aversion: its position and its locals
    client       \* the OrderbookWebSocketClient: its fields and the position of connect

vars == <<orderbook, fee_tiers, sim_times, wire, feed, reader, ret, mode, models, comparison,
          client>>

--------------------------------------------------------------------------
(* Bounds of the model *)

\* Orderbook(max_depth): 50 by default, a constructor argument
max_depth == 2

\* total number of levels (asks plus bids) of a snapshot drawn by InitBook
MaxLevels == 3

\* capacity of the latency buffers (1000 in the code)
RingCapacity == 2

--------------------------------------------------------------------------
(* Values *)

None == <<>>

Some(v) == <<v>>

Min(a, b) == IF a <= b THEN a ELSE b

Max(a, b) == IF a >= b THEN a ELSE b

Abs(a) == IF a < 0 THEN -a ELSE a

RECURSIVE Gcd(_, _)
Gcd(a, b) == IF b = 0 THEN a ELSE Gcd(b, a % b)

\* the float n / d, d # 0, as an exact rational in lowest terms with d > 0
Rat(n, d) ==
    LET g == Gcd(Abs(n), Abs(d))
        s == IF d < 0 THEN -1 ELSE 1
    IN  <<(s * n) \div g, (s * d) \div g>>

RatLe(p, q) == p[1] * q[2] <= q[1] * p[2]

RatLt(p, q) == p[1] * q[2] < q[1] * p[2]

RatNeg(p) == <<-p[1], p[2]>>

\* float addition, over the least common denominator
RatAdd(p, q) ==
    LET l == (p[2] \div Gcd(p[2], q[2])) * q[2]
    IN  Rat(p[1] * (l \div p[2]) + q[1] * (l \div q[2]), l)

RatSub(p, q) == RatAdd(p, RatNeg(q))

\* float multiplication; common factors are cancelled before multiplying
RatMul(p, q) ==
    LET g1 == Gcd(Abs(p[1]), q[2])
        g2 == Gcd(Abs(q[1]), p[2])
    IN  Rat((p[1] \div g1) * (q[1] \div g2), (p[2] \div g2) * (q[2] \div g1))

\* float division by a value other than 0
RatDiv(p, q) == RatMul(p, Rat(q[2], q[1]))

\* nan, the value of the np.float64 division 0 / 0; every operation on it gives nan
NaN == <<0, 0>>

IsNaN(x) == x[2] = 0

\* np.float64 division where the dividend is 0 whenever the divisor is
NpDiv(p, q) == IF IsNaN(p) \/ IsNaN(q) \/ q[1] = 0 THEN NaN ELSE RatDiv(p, q)

NpMul(p, q) == IF IsNaN(p) \/ IsNaN(q) THEN NaN ELSE RatMul(p, q)

NpAdd(p, q) == IF IsNaN(p) \/ IsNaN(q) THEN NaN ELSE RatAdd(p, q)

NpSub(p, q) == IF IsNaN(p) \/ IsNaN(q) THEN NaN ELSE RatSub(p, q)

\* np.sum of an array
RECURSIVE NpSum(_)
NpSum(a) == IF a = <<>> THEN Rat(0, 1) ELSE NpAdd(Head(a), NpSum(Tail(a)))

\* np.log1p on the order sizes of the model, to one decimal; nan below -1
Log1p(n) == CASE n < -1 -> NaN [] n = 0 -> Rat(0, 1) [] n = 1 -> Rat(7, 10)
              [] n = 2 -> Rat(11, 10) [] OTHER -> Rat(14, 10)

\* np.tanh of a rational, by x (27 + x^2) / (27 + 9 x^2) for |x| < 3 and 1
\* beyond, rounded towards 0 to two decimals
Tanh(x) ==
    LET n == Abs(x[1])
        d == x[2]
        s == IF x[1] < 0 THEN -1 ELSE 1
    IN  IF n >= 3 * d THEN Rat(s, 1)
        ELSE Rat(s * ((100 * n * (27 * d * d + n * n))
                          \div (d * (27 * d * d + 9 * n * n))), 100)

\* the integer square root
Isqrt(v) == CHOOSE k \in 0..v : k * k <= v /\ (k + 1) * (k + 1) > v

\* np.sqrt of a rational >= 0: the root itself when it is rational, otherwise
\* the root rounded down to two decimals
Sqrt(x) ==
    LET a == Isqrt(x[1])
        b == Isqrt(x[2])
    IN  IF a * a = x[1] /\ b * b = x[2] THEN Rat(a, b)
        ELSE Rat(Isqrt((10000 * x[1]) \div x[2]), 100)

\* np.sinh, by x + x^3 / 6
Sinh(x) == RatAdd(x, RatMul(RatMul(RatMul(x, x), x), Rat(1, 6)))

\* int() of a float: truncation towards 0
Trunc(x) == IF x[1] >= 0 THEN x[1] \div x[2] ELSE -((-x[1]) \div x[2])

RECURSIVE SumQty(_)
SumQty(levels) ==
    IF levels = <<>> THEN 0 ELSE levels[1][2] + SumQty(Tail(levels))

--------------------------------------------------------------------------
(* Snapshots: the dict handed to update *)

\* decimal strings of a snapshot and the float each parses to
FloatTable == [s \in {"0", "1", "1.0", "2", "3"} |->
                 CASE s = "0" -> 0 [] s = "1" -> 1 [] s = "1.0" -> 1
                   [] s = "2" -> 2 [] s = "3" -> 3]

\* float(s)
FloatOf(s) == FloatTable[s]

\* data.get(key, default)
Get(d, key, default) == IF key \in DOMAIN d THEN d[key] ELSE default

\* data.get(key): None when the key is missing
GetOpt(d, key) == IF key \in DOMAIN d THEN Some(d[key]) ELSE None

\* float(s) returns: s is a decimal string (anything else raises ValueError)
Parsable(s) == s \in DOMAIN FloatTable

\* `for price, qty in levels` unpacks every level and float() accepts both items
Converts(levels) ==
    \A i \in 1..Len(levels) :
        /\ Len(levels[i]) = 2
        /\ Parsable(levels[i][1])
        /\ Parsable(levels[i][2])

\* [[float(price), float(qty)] for price, qty in levels]
ParseLevels(levels) ==
    [i \in 1..Len(levels) |-> <<FloatOf(levels[i][1]), FloatOf(levels[i][2])>>]

\* sorted(levels, key=price): stable, ascending
RECURSIVE SortAsc(_)
SortAsc(levels) ==
    IF levels = <<>> THEN <<>>
    ELSE LET n == Len(levels)
             x == levels[n]
             t == SortAsc(SubSeq(levels, 1, n - 1))
             k == Cardinality({i \in 1..Len(t) : t[i][1] <= x[1]})
         IN  SubSeq(t, 1, k) \o <<x>> \o SubSeq(t, k + 1, Len(t))

\* sorted(levels, key=price, reverse=True): stable, descending
RECURSIVE SortDesc(_)
SortDesc(levels) ==
    IF levels = <<>> THEN <<>>
    ELSE LET n == Len(levels)
             x == levels[n]
             t == SortDesc(SubSeq(levels, 1, n - 1))
             k == Cardinality({i \in 1..Len(t) : t[i][1] >= x[1]})
         IN  SubSeq(t, 1, k) \o <<x>> \o SubSeq(t, k + 1, Len(t))

\* levels[:depth]
Take(levels, depth) == SubSeq(levels, 1, Min(depth, Len(levels)))

\* mutant of RingAppend: a full buffer keeps its oldest entries
RingAppend_KeepOldest(times, t) ==
    SubSeq(Append(times, t), 1, Min(Len(times) + 1, RingCapacity))

\* processing_times.append(t); keep only the last RingCapacity entries
RingAppend(times, t) ==
    LET a == Append(times, t)
    IN  IF Len(a) > RingCapacity
        THEN SubSeq(a, Len(a) - RingCapacity + 1, Len(a))
        ELSE a

RECURSIVE SumSeq(_)
SumSeq(times) == IF times = <<>> THEN 0 ELSE Head(times) + SumSeq(Tail(times))

\* Orderbook.get_average_processing_time and
\* TradeSimulator.get_average_processing_time, on the list each of them reads
get_average_processing_time(times) ==
    IF times = <<>> THEN Rat(0, 1) ELSE Rat(SumSeq(times), Len(times))

--------------------------------------------------------------------------
(* Orderbook *)

\* Orderbook.__init__
NewOrderbook ==
    [asks |-> <<>>, bids |-> <<>>, timestamp |-> None, exchange |-> None,
     symbol |-> None, processing_times |-> <<>>]

\* mutant of NewAsks: the sort is left out
NewAsks_Unsorted(d) == Take(ParseLevels(Get(d, "asks", <<>>)), max_depth)

\* the asks update stores for a snapshot
NewAsks(d) == Take(SortAsc(ParseLevels(Get(d, "asks", <<>>))), max_depth)

\* mutant of NewBids: reverse=True is left out, the lowest bids are kept
NewBids_Lowest(d) == Take(SortAsc(ParseLevels(Get(d, "bids", <<>>))), max_depth)

\* the bids update stores for a snapshot
NewBids(d) == Take(SortDesc(ParseLevels(Get(d, "bids", <<>>))), max_depth)

\* the feed thread at rest, before any call
FeedIdle == [pc |-> "idle", data |-> None, t |-> 0]

\* the feed thread entering Orderbook.update(d); t is the latency the call will measure
FeedCall(d, t) == [pc |-> "set_timestamp", data |-> Some(d), t |-> t]

\* one step of Orderbook.update: every assignment to a field of the book is a
\* step of its own; the pair <<thread, book>> after the step
FeedStep(f, ob) ==
    CASE f.pc = "set_timestamp" ->
           <<[f EXCEPT !.pc = "set_exchange"],
             [ob EXCEPT !.timestamp = GetOpt(f.data[1], "timestamp")]>>
      [] f.pc = "set_exchange" ->
           <<[f EXCEPT !.pc = "set_symbol"],
             [ob EXCEPT !.exchange = GetOpt(f.data[1], "exchange")]>>
      [] f.pc = "set_symbol" ->
           <<[f EXCEPT !.pc = "set_asks"],
             [ob EXCEPT !.symbol = GetOpt(f.data[1], "symbol")]>>
      \* lines 54-58: both lists are converted before either is stored
      [] f.pc = "set_asks" ->
           IF /\ Converts(Get(f.data[1], "asks", <<>>))
              /\ Converts(Get(f.data[1], "bids", <<>>))
           THEN <<[f EXCEPT !.pc = "set_bids"], [ob EXCEPT !.asks = NewAsks(f.data[1])]>>
           ELSE <<[f EXCEPT !.pc = "raised"], ob>>
      [] f.pc = "set_bids" ->
           <<[f EXCEPT !.pc = "record_time"], [ob EXCEPT !.bids = NewBids(f.data[1])]>>
      [] f.pc = "record_time" ->
           <<[f EXCEPT !.pc = "returned"],
             [ob EXCEPT !.processing_times = RingAppend(ob.processing_times, f.t)]>>

\* the steps of Orderbook.update run without interruption
RECURSIVE RunFeed(_, _)
RunFeed(f, ob) ==
    IF f.pc \in {"returned", "raised"} THEN <<f, ob>>
    ELSE LET n == FeedStep(f, ob) IN RunFeed(n[1], n[2])

\* Orderbook.update, run to completion or to the exception it raises; t is the
\* latency it measures
update(ob, d, t) == RunFeed(FeedCall(d, t), ob)[2]

\* Orderbook.update(d) raises
UpdateRaises(ob, d) == RunFeed(FeedCall(d, 0), ob)[1].pc = "raised"

\* mutant of get_mid_price: the sum is not halved
get_mid_price_Unhalved(ob) ==
    IF ob.asks = <<>> \/ ob.bids = <<>> THEN None
    ELSE Some(Rat(ob.asks[1][1] + ob.bids[1][1], 1))

get_mid_price(ob) ==
    IF ob.asks = <<>> \/ ob.bids = <<>> THEN None
    ELSE Some(Rat(ob.asks[1][1] + ob.bids[1][1], 2))

get_spread(ob) ==
    IF ob.asks = <<>> \/ ob.bids = <<>> THEN None
    ELSE Some(ob.asks[1][1] - ob.bids[1][1])

get_spread_percentage(ob) ==
    LET spread == get_spread(ob)
        mid_price == get_mid_price(ob)
    IN  IF spread = None \/ mid_price = None THEN None
        ELSE IF mid_price[1][1] = 0 THEN None
        ELSE Some(Rat(spread[1] * mid_price[1][2] * 100, mid_price[1][1]))

\* mutant of ScanAsks: p < price instead of p <= price
RECURSIVE ScanAsks_Strict(_, _)
ScanAsks_Strict(levels, price) ==
    IF levels = <<>> THEN 0
    ELSE IF levels[1][1] < price
         THEN levels[1][2] + ScanAsks_Strict(Tail(levels), price)
         ELSE 0

\* the ask branch of get_volume_up_to_price: sum while p <= price, stop at the first miss
RECURSIVE ScanAsks(_, _)
ScanAsks(levels, price) ==
    IF levels = <<>> THEN 0
    ELSE IF levels[1][1] <= price
         THEN levels[1][2] + ScanAsks(Tail(levels), price)
         ELSE 0

\* the bid branch of get_volume_up_to_price: sum while p >= price, stop at the first miss
RECURSIVE ScanBids(_, _)
ScanBids(levels, price) ==
    IF levels = <<>> THEN 0
    ELSE IF levels[1][1] >= price
         THEN levels[1][2] + ScanBids(Tail(levels), price)
         ELSE 0

\* side.lower()
Lower(side) ==
    CASE side = "ASK" -> "ask"
      [] side = "BID" -> "bid"
      [] side = "BUY" -> "buy"
      [] side = "SELL" -> "sell"
      [] OTHER -> side

get_volume_up_to_price(ob, side, price) ==
    IF Lower(side) = "ask" THEN ScanAsks(ob.asks, price)
    ELSE IF Lower(side) = "bid" THEN ScanBids(ob.bids, price)
    ELSE 0

\* mutant of WalkLevels: remaining_volume < 0 instead of <= 0
RECURSIVE WalkLevels_Strict(_, _)
WalkLevels_Strict(levels, remaining_volume) ==
    IF levels = <<>> THEN None
    ELSE IF remaining_volume - levels[1][2] < 0 THEN Some(levels[1][1])
    ELSE WalkLevels_Strict(Tail(levels), remaining_volume - levels[1][2])

\* the loop of get_price_for_volume over one side
RECURSIVE WalkLevels(_, _)
WalkLevels(levels, remaining_volume) ==
    IF levels = <<>> THEN None
    ELSE IF remaining_volume - levels[1][2] <= 0 THEN Some(levels[1][1])
    ELSE WalkLevels(Tail(levels), remaining_volume - levels[1][2])

get_price_for_volume(ob, side, volume) ==
    IF Lower(side) = "ask" THEN WalkLevels(ob.asks, volume)
    ELSE IF Lower(side) = "bid" THEN WalkLevels(ob.bids, volume)
    ELSE None

\* mutant of get_orderbook_imbalance: ask volume minus bid volume
get_orderbook_imbalance_Swapped(ob) ==
    IF ob.asks = <<>> \/ ob.bids = <<>> THEN None
    ELSE LET bid_volume == SumQty(ob.bids)
             ask_volume == SumQty(ob.asks)
         IN  IF bid_volume + ask_volume = 0 THEN Some(Rat(0, 1))
             ELSE Some(Rat(ask_volume - bid_volume, bid_volume + ask_volume))

get_orderbook_imbalance(ob) ==
    IF ob.asks = <<>> \/ ob.bids = <<>> THEN None
    ELSE LET bid_volume == SumQty(ob.bids)
             ask_volume == SumQty(ob.asks)
         IN  IF bid_volume + ask_volume = 0 THEN Some(Rat(0, 1))
             ELSE Some(Rat(bid_volume - ask_volume, bid_volume + ask_volume))

--------------------------------------------------------------------------
(* FeeModel.  Rates are in units of 0.0001 (0.0010 is 10).  A dict is a   *)
(* function on its keys; a call either returns a value or raises.          *)

Ok(v) == [ok |-> TRUE, val |-> v]

Raise(e) == [ok |-> FALSE, exc |-> e]

Tiers(v0, v1, v2, v3, v4, v5) ==
    [t \in {"VIP0", "VIP1", "VIP2", "VIP3", "VIP4", "VIP5"} |->
        CASE t = "VIP0" -> v0 [] t = "VIP1" -> v1 [] t = "VIP2" -> v2
          [] t = "VIP3" -> v3 [] t = "VIP4" -> v4 [] t = "VIP5" -> v5]

\* FeeModel.__init__: the default table of OKX
DefaultOKX ==
    [m \in {"spot", "futures"} |->
        IF m = "spot"
        THEN [maker |-> Tiers(10, 8, 6, 4, 2, 0), taker |-> Tiers(15, 10, 8, 5, 3, 1)]
        ELSE [maker |-> Tiers(2, 1, 0, -1, -2, -3), taker |-> Tiers(5, 4, 3, 2, 1, 0)]]

DefaultFeeTiers == [e \in {"OKX"} |-> DefaultOKX]

\* FeeModel.get_fee_rate
get_fee_rate(ft, exchange, market_type, fee_tier, is_maker) ==
    LET ex == IF exchange \notin DOMAIN ft THEN "OKX" ELSE exchange
        order_type == IF is_maker THEN "maker" ELSE "taker"
    IN  IF ex \notin DOMAIN ft THEN Raise("KeyError")
        ELSE LET mt == IF market_type \notin DOMAIN ft[ex] THEN "spot" ELSE market_type
             IN  IF mt \notin DOMAIN ft[ex] THEN Raise("KeyError")
                 ELSE IF order_type \notin DOMAIN ft[ex][mt] THEN Raise("KeyError")
                 ELSE LET bucket == ft[ex][mt][order_type]
                          tier == IF fee_tier \notin DOMAIN bucket THEN "VIP0" ELSE fee_tier
                      IN  IF tier \notin DOMAIN bucket THEN Raise("KeyError")
                          ELSE Ok(bucket[tier])

\* mutant of add_exchange_fee_tiers: the market types of the structure are
\* merged into the exchange's previous structure
add_exchange_fee_tiers_Merge(ft, exchange, structure) ==
    [e \in DOMAIN ft \cup {exchange} |->
        IF e # exchange THEN ft[e]
        ELSE IF exchange \notin DOMAIN ft THEN structure
        ELSE [m \in DOMAIN ft[exchange] \cup DOMAIN structure |->
                 IF m \in DOMAIN structure THEN structure[m] ELSE ft[exchange][m]]]

\* FeeModel.add_exchange_fee_tiers: self.fee_tiers[exchange] = fee_tiers
add_exchange_fee_tiers(ft, exchange, structure) ==
    [e \in DOMAIN ft \cup {exchange} |-> IF e = exchange THEN structure ELSE ft[e]]

\* the value a numeric routine returns for its arguments, kept as the
\* application itself: equal arguments give equal values
Call(fn, args) == [fn |-> fn, args |-> args]

\* FeeModel.calculate_fee: both rates are looked up, then the fee breakdown is
\* computed from the order value, the maker proportion and the two rates
calculate_fee(ft, order_value, exchange, market_type, fee_tier, maker_proportion) ==
    LET maker_rate == get_fee_rate(ft, exchange, market_type, fee_tier, TRUE)
        taker_rate == get_fee_rate(ft, exchange, market_type, fee_tier, FALSE)
    IN  IF ~maker_rate.ok THEN maker_rate
        ELSE IF ~taker_rate.ok THEN taker_rate
        ELSE Ok(Call("calculate_fee",
                     <<order_value, maker_proportion, maker_rate.val, taker_rate.val>>))

\* a rate of the table (units of 0.0001) as a number
RateOf(rate) == Rat(rate, 10000)

\* FeeModel.calculate_fee, lines 120-132: the fee breakdown for an order value,
\* a maker proportion and the two rates, all numbers
FeeBreakdown(order_value, maker_proportion, maker_rate, taker_rate) ==
    LET maker_value == RatMul(order_value, maker_proportion)
        taker_value == RatMul(order_value, RatSub(Rat(1, 1), maker_proportion))
        maker_fee == RatMul(maker_value, maker_rate)
        taker_fee == RatMul(taker_value, taker_rate)
        total_fee == RatAdd(maker_fee, taker_fee)
    IN  [maker_fee |-> maker_fee,
         taker_fee |-> taker_fee,
         total_fee |-> total_fee,
         effective_rate |->
             IF order_value[1] > 0 THEN RatDiv(total_fee, order_value) ELSE Rat(0, 1)]

--------------------------------------------------------------------------
(* The estimators before any fit (is_fitted is False: the fallbacks) and the  *)
(* market impact model with its default factors, on numbers.  order_size is  *)
(* an integer, spread an integer, volatility and imbalance are rationals.    *)

FromInt(n) == Rat(n, 1)

\* mutant of Clamp01: min(1.0, x) alone
Clamp01_UpperOnly(x) == IF RatLt(x, Rat(1, 1)) THEN x ELSE Rat(1, 1)

\* max(0.0, min(1.0, x)): min gives x when x < 1.0 and 1.0 otherwise, max
\* gives that value when it is above 0.0 and 0.0 otherwise; a comparison with
\* nan is False
Clamp01(x) ==
    LET upper == IF RatLt(x, Rat(1, 1)) THEN x ELSE Rat(1, 1)
    IN  IF RatLt(Rat(0, 1), upper) THEN upper ELSE Rat(0, 1)

\* MakerTakerModel.estimate_maker_proportion -> _estimate_maker_proportion_fallback
estimate_maker_proportion(order_size, spread, volatility, orderbook_imbalance) ==
    LET base_proportion == Rat(1, 2)
        size_factor == NpMul(Rat(-1, 100), Log1p(order_size))
        spread_factor == RatMul(Rat(1, 10), Tanh(FromInt(spread)))
        vol_factor == RatMul(Rat(-2, 10), volatility)
        imbalance_factor == RatMul(Rat(1, 10), orderbook_imbalance)
    IN  Clamp01(NpAdd(NpAdd(NpAdd(NpAdd(base_proportion, size_factor),
                                  spread_factor), vol_factor), imbalance_factor))

\* SlippageModel.estimate_slippage -> _estimate_slippage_fallback
estimate_slippage(order_size, spread, volatility, orderbook_imbalance) ==
    LET base_slippage == RatMul(FromInt(spread), Rat(1, 2))
        size_factor == NpMul(Log1p(order_size), Rat(1, 10))
        vol_factor == RatMul(volatility, Rat(2, 1))
        imbalance_factor ==
            RatMul(RatMul(RatNeg(orderbook_imbalance), FromInt(spread)), Rat(3, 10))
    IN  NpAdd(NpAdd(NpAdd(base_slippage, size_factor), vol_factor), imbalance_factor)

\* AlmgrenChrissModel.__init__: the default factors
temporary_impact_factor == Rat(1, 10)

permanent_impact_factor == Rat(1, 100)

market_vol_factor == Rat(1, 2)

DefaultRiskAversion == Rat(1, 1000)

\* mutant of calculate_market_impact: total_impact leaves out the execution risk
calculate_market_impact_NoRisk(order_size, avg_daily_volume, volatility, mid_price, orderbook_depth, risk_aversion) ==
    LET normalized_size ==
            IF avg_daily_volume > 0 THEN Rat(order_size, avg_daily_volume)
            ELSE Rat(0, 1)
        trading_rate == FromInt(order_size)
        size_scaling ==
            IF normalized_size[1] > 0 THEN Sqrt(normalized_size) ELSE Rat(1, 1)
        depth_adjustment ==
            IF orderbook_depth > 0
            THEN RatAdd(Rat(1, 1), Tanh(Rat(order_size, orderbook_depth)))
            ELSE Rat(1, 1)
        temporary_impact ==
            RatMul(RatMul(RatMul(RatMul(RatMul(temporary_impact_factor, mid_price),
                                        trading_rate), size_scaling),
                          RatAdd(Rat(1, 1), RatMul(market_vol_factor, volatility))),
                   depth_adjustment)
        permanent_impact ==
            RatMul(RatMul(permanent_impact_factor, mid_price), FromInt(order_size))
        execution_risk ==
            RatMul(RatMul(RatMul(Rat(1, 2), risk_aversion),
                          RatMul(volatility, volatility)),
                   FromInt(order_size * order_size))
    IN  [temporary_impact |-> temporary_impact,
         permanent_impact |-> permanent_impact,
         execution_risk |-> execution_risk,
         total_impact |-> RatAdd(temporary_impact, permanent_impact)]

\* AlmgrenChrissModel.calculate_market_impact with execution_time = 1.0
calculate_market_impact(order_size, avg_daily_volume, volatility, mid_price, orderbook_depth, risk_aversion) ==
    LET normalized_size ==
            IF avg_daily_volume > 0 THEN Rat(order_size, avg_daily_volume)
            ELSE Rat(0, 1)
        trading_rate == FromInt(order_size)
        size_scaling ==
            IF normalized_size[1] > 0 THEN Sqrt(normalized_size) ELSE Rat(1, 1)
        depth_adjustment ==
            IF orderbook_depth > 0
            THEN RatAdd(Rat(1, 1), Tanh(Rat(order_size, orderbook_depth)))
            ELSE Rat(1, 1)
        temporary_impact ==
            RatMul(RatMul(RatMul(RatMul(RatMul(temporary_impact_factor, mid_price),
                                        trading_rate), size_scaling),
                          RatAdd(Rat(1, 1), RatMul(market_vol_factor, volatility))),
                   depth_adjustment)
        permanent_impact ==
            RatMul(RatMul(permanent_impact_factor, mid_price), FromInt(order_size))
        execution_risk ==
            RatMul(RatMul(RatMul(Rat(1, 2), risk_aversion),
                          RatMul(volatility, volatility)),
                   FromInt(order_size * order_size))
    IN  [temporary_impact |-> temporary_impact,
         permanent_impact |-> permanent_impact,
         execution_risk |-> execution_risk,
         total_impact |->
             RatAdd(RatAdd(temporary_impact, permanent_impact), execution_risk)]

--------------------------------------------------------------------------
(* The three model objects of TradeSimulator.  The sklearn objects they     *)
(* hold are kept by their state only: a scaler is "new" or "fitted", an     *)
(* estimator is "None" (no object), "new" (an object never fitted) or       *)
(* "fitted".  Training data is [rows, accepted]: the number of samples and  *)
(* whether the sklearn estimator's fit accepts them or raises.              *)

\* SlippageModel.__init__(regression_type)
NewSlippageModel(regression_type) ==
    [regression_type |-> regression_type, model |-> "None", scaler |-> "new",
     is_fitted |-> FALSE]

\* MakerTakerModel.__init__
NewMakerTakerModel == [model |-> "new", scaler |-> "new", is_fitted |-> FALSE]

\* AlmgrenChrissModel.__init__ with its defaults
NewAlmgrenChrissModel ==
    [temporary_impact_factor |-> temporary_impact_factor,
     permanent_impact_factor |-> permanent_impact_factor,
     market_vol_factor |-> market_vol_factor,
     risk_aversion |-> DefaultRiskAversion]

\* TradeSimulator.__init__, lines 37-39
NewModels ==
    [slippage_model |-> NewSlippageModel("linear"),
     maker_taker_model |-> NewMakerTakerModel,
     market_impact_model |-> NewAlmgrenChrissModel]

\* mutant of SlippageModel_fit: is_fitted is set before the estimator is fitted
SlippageModel_fit_EarlyFlag(m, X) ==
    IF X.rows < 10 THEN <<Ok(None), m>>
    ELSE LET scaled == [m EXCEPT !.scaler = "fitted", !.is_fitted = TRUE]
         IN  IF m.regression_type \notin {"linear", "quantile"}
             THEN <<Raise("ValueError"), scaled>>
             ELSE IF ~X.accepted
             THEN <<Raise("ValueError"), [scaled EXCEPT !.model = "new"]>>
             ELSE <<Ok(None), [scaled EXCEPT !.model = "fitted"]>>

\* SlippageModel.fit(X, y): the pair <<outcome, the model afterwards>>
SlippageModel_fit(m, X) ==
    IF X.rows < 10 THEN <<Ok(None), m>>
    ELSE LET scaled == [m EXCEPT !.scaler = "fitted"]
         IN  IF m.regression_type \notin {"linear", "quantile"}
             THEN <<Raise("ValueError"), scaled>>
             ELSE IF ~X.accepted
             THEN <<Raise("ValueError"), [scaled EXCEPT !.model = "new"]>>
             ELSE <<Ok(None), [scaled EXCEPT !.model = "fitted", !.is_fitted = TRUE]>>

\* MakerTakerModel.fit(X, y): the pair <<outcome, the model afterwards>>
MakerTakerModel_fit(m, X) ==
    IF X.rows < 10 THEN <<Ok(None), m>>
    ELSE LET scaled == [m EXCEPT !.scaler = "fitted"]
         IN  IF ~X.accepted THEN <<Raise("ValueError"), scaled>>
             ELSE <<Ok(None), [scaled EXCEPT !.model = "fitted", !.is_fitted = TRUE]>>

\* SlippageModel.estimate_slippage on the object m: the fallback while
\* is_fitted is False, otherwise predict; prediction is the value a fitted
\* sklearn regressor gives for the features
SlippageModel_estimate_slippage(m, order_size, spread, volatility, orderbook_imbalance, prediction) ==
    IF ~m.is_fitted
    THEN [ok |-> TRUE, fitted |-> FALSE,
          val |-> estimate_slippage(order_size, spread, volatility, orderbook_imbalance)]
    ELSE IF m.model = "fitted" THEN [ok |-> TRUE, fitted |-> TRUE, val |-> prediction]
    ELSE [ok |-> FALSE, fitted |-> TRUE, exc |-> "NotFittedError"]

\* MakerTakerModel.estimate_maker_proportion on the object m; probability is
\* the value predict_proba of a fitted LogisticRegression gives for class 1
MakerTakerModel_estimate_maker_proportion(m, order_size, spread, volatility, orderbook_imbalance, probability) ==
    IF ~m.is_fitted
    THEN [ok |-> TRUE, fitted |-> FALSE,
          val |-> estimate_maker_proportion(order_size, spread, volatility,
                                            orderbook_imbalance)]
    ELSE [ok |-> TRUE, fitted |-> TRUE, val |-> probability]

--------------------------------------------------------------------------
(* AlmgrenChrissModel.calculate_optimal_execution_schedule.  Arrays are     *)
(* sequences indexed from 1: index i is the code's index i - 1.             *)

\* np.abs(x) > 1e-10 for a difference of the model's numbers: their
\* denominators stay below 10^9, so a difference exceeds 1e-10 unless it is 0;
\* a comparison with nan is False
ExceedsTolerance(x) == ~IsNaN(x) /\ x[1] # 0

\* n_intervals = max(int(time_horizon * 4), 2)
Intervals(time_horizon) == Max(Trunc(RatMul(time_horizon, Rat(4, 1))), 2)

\* mutant of Linspace: n points of step time_horizon / n, the end point left out
Linspace_NoEndpoint(time_horizon, n) == [i \in 1..n |-> RatMul(time_horizon, Rat(i - 1, n))]

\* np.linspace(0, time_horizon, n)
Linspace(time_horizon, n) == [i \in 1..n |-> RatMul(time_horizon, Rat(i - 1, n - 1))]

\* lines 166-175: the risk-neutral branch, as <<remaining_sizes, trade_sizes>>
RECURSIVE LinearRemaining(_, _, _)
LinearRemaining(total_size, trade_sizes, i) ==
    IF i = 1 THEN total_size
    ELSE RatSub(LinearRemaining(total_size, trade_sizes, i - 1), trade_sizes[i - 1])

RiskNeutral(total_size, n) ==
    LET trade_per_step == RatDiv(total_size, Rat(n - 1, 1))
        trade_sizes == [i \in 1..n |-> IF i <= n - 1 THEN trade_per_step ELSE Rat(0, 1)]
    IN  <<[i \in 1..n |-> LinearRemaining(total_size, trade_sizes, i)], trade_sizes>>

\* mutant of RiskAverse: the remaining factor takes the elapsed time t where
\* the code takes the time left, time_horizon - t
RiskAverse_ElapsedTime(total_size, time_horizon, times, alpha, gamma) ==
    LET n == Len(times)
        kappa == Sqrt(RatMul(alpha, gamma))
        sinh_term == Sinh(RatMul(kappa, time_horizon))
        remaining_sizes ==
            [i \in 1..n |->
                IF i = 1 THEN total_size
                ELSE NpMul(total_size,
                           NpDiv(Sinh(RatMul(kappa, times[i])), sinh_term))]
    IN  <<remaining_sizes,
          [i \in 1..n |->
              IF i <= n - 1 THEN NpSub(remaining_sizes[i], remaining_sizes[i + 1])
              ELSE remaining_sizes[n]]>>

\* lines 176-198: the risk-averse branch, as <<remaining_sizes, trade_sizes>>
RiskAverse(total_size, time_horizon, times, alpha, gamma) ==
    LET n == Len(times)
        kappa == Sqrt(RatMul(alpha, gamma))
        sinh_term == Sinh(RatMul(kappa, time_horizon))
        remaining_sizes ==
            [i \in 1..n |->
                IF i = 1 THEN total_size
                ELSE NpMul(total_size,
                           NpDiv(Sinh(RatMul(kappa, RatSub(time_horizon, times[i]))),
                                 sinh_term))]
    IN  <<remaining_sizes,
          [i \in 1..n |->
              IF i <= n - 1 THEN NpSub(remaining_sizes[i], remaining_sizes[i + 1])
              ELSE remaining_sizes[n]]>>

\* calculate_optimal_execution_schedule of a model with the given risk
\* aversion; the result is (times, trade_sizes), remaining_sizes is the local
\* array of that name
calculate_optimal_execution_schedule(total_size, time_horizon, volatility, risk_aversion) ==
    LET n == Intervals(time_horizon)
        times == Linspace(time_horizon, n)
        alpha == RatMul(risk_aversion, RatMul(volatility, volatility))
        branch == IF alpha[1] = 0 THEN RiskNeutral(total_size, n)
                  ELSE RiskAverse(total_size, time_horizon, times, alpha,
                                  temporary_impact_factor)
        trade_sizes == branch[2]
        residual == NpSub(total_size, NpSum(trade_sizes))
    IN  [times |-> times,
         trade_sizes |->
             IF ExceedsTolerance(NpSub(NpSum(trade_sizes), total_size))
             THEN [trade_sizes EXCEPT ![n] = NpAdd(@, residual)]
             ELSE trade_sizes,
         remaining_sizes |-> branch[1],
         alpha |-> alpha]

--------------------------------------------------------------------------
(* TradeSimulator.simulate_market_order.  Every read of a field of the     *)
(* shared Orderbook is a step of its own; what lies between two reads is    *)
(* local and belongs to the later step.  The numeric routines (estimators,  *)
(* market impact, sums and quotients of their results) are kept as Call     *)
(* terms over the values they are given.                                    *)

\* the dashboard thread at rest, before any call.  The field during is a
\* history of the call in progress, not a value of the program: what the feed
\* thread did while the call ran ("none", "step", or "emptied" when it emptied
\* a side the call had already found filled)
ReaderIdle ==
    [pc |-> "idle", args |-> None, mid_price |-> None, spread |-> None,
     imbalance |-> None, tmp |-> None, costs |-> None, timestamp |-> None,
     calls |-> {}, result |-> None, exc |-> None, during |-> "none"]

\* the dashboard thread entering simulate_market_order(args)
ReaderCall(args) == [ReaderIdle EXCEPT !.pc = "check_asks", !.args = args]

Return(r, result) == [r EXCEPT !.pc = "done", !.tmp = None, !.result = Some(result)]

Throw(r, e) == [r EXCEPT !.pc = "raised", !.tmp = None, !.exc = Some(e)]

\* mutant of ErrorEmpty: the result also carries a field of the book
ErrorEmpty_Partial == [error |-> "Orderbook is empty", timestamp |-> None]

ErrorEmpty == [error |-> "Orderbook is empty"]

ErrorMetrics == [error |-> "Invalid orderbook metrics"]

\* lines 115-131: order value, maker proportion, fees, slippage
Estimate(r, ft) ==
    LET a == r.args
        mid_price == r.mid_price[1]
        spread == r.spread[1]
        imbalance == r.imbalance[1]
        order_value == Rat(a.quantity * mid_price[1], mid_price[2])
        maker_proportion ==
            Call("estimate_maker_proportion",
                 <<a.quantity, spread, a.volatility, imbalance>>)
        fees == calculate_fee(ft, order_value, a.exchange, a.market_type,
                              a.fee_tier, maker_proportion)
        slippage ==
            Call("estimate_slippage", <<a.quantity, spread, a.volatility, imbalance>>)
    IN  IF ~fees.ok
        THEN [Throw(r, fees.exc) EXCEPT !.calls = {"estimate_maker_proportion", "calculate_fee"}]
        ELSE [r EXCEPT !.pc = "depth_bids",
                       !.calls = {"estimate_maker_proportion", "calculate_fee",
                                  "estimate_slippage"},
                       !.costs = Some([order_value |-> order_value,
                                       maker_proportion |-> maker_proportion,
                                       fees |-> fees.val,
                                       slippage |-> slippage])]

\* (x / order_value) * 100 if order_value > 0 else 0
Percentage(x, order_value) == Call("percentage", <<x, order_value>>)

\* mutant of SideSign: the side is compared without lower()
SideSign_CaseSensitive(side) == IF side = "buy" THEN 1 ELSE -1

\* lines 147-150: `if side.lower() == 'buy'` adds, anything else subtracts
SideSign(side) == IF Lower(side) = "buy" THEN 1 ELSE -1

\* lines 135-150: market impact, net cost, execution price.  The cost terms are
\* numpy floats, so dividing them by a quantity of 0 gives inf or nan, no exception
Impact(r, orderbook_depth) ==
    LET a == r.args
        c == r.costs[1]
        market_impact ==
            Call("calculate_market_impact",
                 <<a.quantity, orderbook_depth * 100, a.volatility, r.mid_price[1],
                   orderbook_depth>>)
        net_cost == Call("sum", <<c.fees, c.slippage, market_impact>>)
        sign == SideSign(a.side)
        execution_price ==
            IF a.quantity = 0 THEN Call("nonfinite", <<sign>>)
            ELSE Call("execution_price",
                      <<r.mid_price[1], sign, c.slippage, market_impact, a.quantity>>)
    IN  [r EXCEPT !.pc = "read_timestamp",
                  !.tmp = None,
                  !.calls = @ \cup {"calculate_market_impact"},
                  !.costs = Some([order_value |-> c.order_value,
                                  maker_proportion |-> c.maker_proportion,
                                  fees |-> c.fees,
                                  slippage |-> c.slippage,
                                  orderbook_depth |-> orderbook_depth,
                                  market_impact |-> market_impact,
                                  net_cost |-> net_cost,
                                  execution_price |-> execution_price])]

\* lines 156-174: the result dict
CostEstimate(r, symbol) ==
    LET a == r.args
        c == r.costs[1]
    IN  [timestamp |-> r.timestamp,
         exchange |-> a.exchange,
         symbol |-> symbol,
         side |-> a.side,
         quantity |-> a.quantity,
         mid_price |-> r.mid_price[1],
         execution_price |-> c.execution_price,
         order_value |-> c.order_value,
         maker_proportion |-> c.maker_proportion,
         fees |-> c.fees,
         slippage |-> c.slippage,
         slippage_percentage |-> Percentage(c.slippage, c.order_value),
         market_impact |-> c.market_impact,
         market_impact_percentage |-> Percentage(c.market_impact, c.order_value),
         net_cost |-> c.net_cost,
         net_cost_percentage |-> Percentage(c.net_cost, c.order_value),
         processing_time |-> a.t]

\* mutant of CheckAsks: the left operand of line 98 is dropped
CheckAsks_Skipped(r, ob) == [r EXCEPT !.pc = "check_bids"]

\* line 98, left operand: `not self.orderbook.asks`
CheckAsks(r, ob) ==
    IF ob.asks = <<>> THEN Return(r, ErrorEmpty)
    ELSE [r EXCEPT !.pc = "check_bids"]

\* one step of simulate_market_order (with the getters it calls) against the
\* book ob and the fee table ft
SimStep(r, ob, ft) ==
    CASE r.pc = "check_asks" -> CheckAsks(r, ob)
      [] r.pc = "check_bids" ->
           IF ob.bids = <<>> THEN Return(r, ErrorEmpty)
           ELSE [r EXCEPT !.pc = "mid_asks"]
      \* get_mid_price
      [] r.pc = "mid_asks" ->
           IF ob.asks = <<>> THEN [r EXCEPT !.pc = "spread_asks"]
           ELSE [r EXCEPT !.pc = "mid_bids"]
      [] r.pc = "mid_bids" ->
           IF ob.bids = <<>> THEN [r EXCEPT !.pc = "spread_asks"]
           ELSE [r EXCEPT !.pc = "mid_best_ask"]
      [] r.pc = "mid_best_ask" ->
           IF ob.asks = <<>> THEN Throw(r, "IndexError")
           ELSE [r EXCEPT !.pc = "mid_best_bid", !.tmp = Some(ob.asks[1][1])]
      [] r.pc = "mid_best_bid" ->
           IF ob.bids = <<>> THEN Throw(r, "IndexError")
           ELSE [r EXCEPT !.pc = "spread_asks", !.tmp = None,
                          !.mid_price = Some(Rat(r.tmp[1] + ob.bids[1][1], 2))]
      \* get_spread
      [] r.pc = "spread_asks" ->
           IF ob.asks = <<>> THEN [r EXCEPT !.pc = "imbalance_asks"]
           ELSE [r EXCEPT !.pc = "spread_bids"]
      [] r.pc = "spread_bids" ->
           IF ob.bids = <<>> THEN [r EXCEPT !.pc = "imbalance_asks"]
           ELSE [r EXCEPT !.pc = "spread_best_ask"]
      [] r.pc = "spread_best_ask" ->
           IF ob.asks = <<>> THEN Throw(r, "IndexError")
           ELSE [r EXCEPT !.pc = "spread_best_bid", !.tmp = Some(ob.asks[1][1])]
      [] r.pc = "spread_best_bid" ->
           IF ob.bids = <<>> THEN Throw(r, "IndexError")
           ELSE [r EXCEPT !.pc = "imbalance_asks", !.tmp = None,
                          !.spread = Some(r.tmp[1] - ob.bids[1][1])]
      \* get_orderbook_imbalance
      [] r.pc = "imbalance_asks" ->
           IF ob.asks = <<>> THEN [r EXCEPT !.pc = "metrics"]
           ELSE [r EXCEPT !.pc = "imbalance_bids"]
      [] r.pc = "imbalance_bids" ->
           IF ob.bids = <<>> THEN [r EXCEPT !.pc = "metrics"]
           ELSE [r EXCEPT !.pc = "imbalance_bid_volume"]
      [] r.pc = "imbalance_bid_volume" ->
           [r EXCEPT !.pc = "imbalance_ask_volume", !.tmp = Some(SumQty(ob.bids))]
      [] r.pc = "imbalance_ask_volume" ->
           LET bid_volume == r.tmp[1]
               ask_volume == SumQty(ob.asks)
           IN  [r EXCEPT !.pc = "metrics", !.tmp = None,
                         !.imbalance =
                             IF bid_volume + ask_volume = 0 THEN Some(Rat(0, 1))
                             ELSE Some(Rat(bid_volume - ask_volume,
                                           bid_volume + ask_volume))]
      \* lines 109-131
      [] r.pc = "metrics" ->
           IF r.mid_price = None \/ r.spread = None \/ r.imbalance = None
           THEN Return(r, ErrorMetrics)
           ELSE Estimate(r, ft)
      \* line 135
      [] r.pc = "depth_bids" ->
           [r EXCEPT !.pc = "depth_asks", !.tmp = Some(SumQty(ob.bids))]
      [] r.pc = "depth_asks" -> Impact(r, r.tmp[1] + SumQty(ob.asks))
      \* lines 157 and 159
      [] r.pc = "read_timestamp" ->
           [r EXCEPT !.pc = "read_symbol", !.timestamp = ob.timestamp]
      [] r.pc = "read_symbol" -> Return(r, CostEstimate(r, ob.symbol))

\* np.float64 division by 0: inf, -inf or nan, no number
NonFinite == [nonfinite |-> TRUE]

\* the volatility argument (units of 0.01) as a number
VolOf(v) == Rat(v, 100)

\* the number (or dict of numbers) a Call term of simulate_market_order stands
\* for: the routine of that name applied to the values of its arguments
RECURSIVE Value(_)
Value(term) ==
    LET x == term.args
    IN  CASE term.fn = "estimate_maker_proportion" ->
               estimate_maker_proportion(x[1], x[2], VolOf(x[3]), x[4])
          [] term.fn = "estimate_slippage" ->
               estimate_slippage(x[1], x[2], VolOf(x[3]), x[4])
          [] term.fn = "calculate_fee" ->
               FeeBreakdown(x[1], Value(x[2]), RateOf(x[3]), RateOf(x[4]))
          [] term.fn = "calculate_market_impact" ->
               calculate_market_impact(x[1], x[2], VolOf(x[3]), x[4], x[5],
                                       DefaultRiskAversion)
          \* line 143: fees['total_fee'] + slippage + market_impact['total_impact']
          [] term.fn = "sum" ->
               RatAdd(RatAdd(Value(x[1]).total_fee, Value(x[2])),
                      Value(x[3]).total_impact)
          \* lines 147-150: mid_price +- (slippage + temporary_impact) / quantity
          [] term.fn = "execution_price" ->
               LET shift == RatDiv(RatAdd(Value(x[3]), Value(x[4]).temporary_impact),
                                   FromInt(x[5]))
               IN  IF x[2] = 1 THEN RatAdd(x[1], shift) ELSE RatSub(x[1], shift)
          [] term.fn = "nonfinite" -> NonFinite
          \* (x / order_value) * 100 if order_value > 0 else 0
          [] term.fn = "percentage" ->
               LET amount == IF x[1].fn = "calculate_market_impact"
                             THEN Value(x[1]).total_impact ELSE Value(x[1])
               IN  IF x[2][1] > 0 THEN RatMul(RatDiv(amount, x[2]), Rat(100, 1))
                   ELSE Rat(0, 1)

\* a result dict with its numbers in place of the Call terms
Numbers(result) ==
    [result EXCEPT !.execution_price = Value(@),
                   !.maker_proportion = Value(@),
                   !.fees = Value(@),
                   !.slippage = Value(@),
                   !.slippage_percentage = Value(@),
                   !.market_impact = Value(@),
                   !.market_impact_percentage = Value(@),
                   !.net_cost = Value(@),
                   !.net_cost_percentage = Value(@)]

\* simulate_market_order run without interruption
RECURSIVE RunSim(_, _, _)
RunSim(r, ob, ft) ==
    IF r.pc \in {"done", "raised"} THEN r ELSE RunSim(SimStep(r, ob, ft), ob, ft)

\* simulate_market_order(args) called with no other thread running
simulate_market_order(ob, ft, args) == RunSim(ReaderCall(args), ob, ft)

--------------------------------------------------------------------------
(* TradeSimulator.update_orderbook and the callers of the metric getters *)

NoCall == [op |-> "none", args |-> <<>>, val |-> None]

--------------------------------------------------------------------------
(* WebSocketClient and OrderbookWebSocketClient                            *)
(*                                                                         *)
(* connect is a coroutine: pc is its position.  A message is the text of a *)
(* frame: json is whether json.loads accepts it, data the dict it yields.  *)

max_connection_attempts == 10

\* WebSocketClient.__init__; connect has not been called
NewWebSocketClient ==
    [pc |-> "idle", running |-> FALSE, connection_attempts |-> 0,
     failed |-> 0, disconnected |-> FALSE]

RequiredKeys == {"timestamp", "exchange", "symbol", "asks", "bids"}

\* the shortest decimal string of the float x
Repr(x) ==
    CHOOSE s \in DOMAIN FloatTable :
        /\ FloatTable[s] = x
        /\ \A t \in DOMAIN FloatTable : FloatTable[t] = x => Len(s) <= Len(t)

\* lines 139-145: the dict handed to the user callback; its levels hold
\* floats, each carried as the decimal string that denotes it
ProcessedData(data) ==
    LET floats(levels) ==
            [i \in 1..Len(levels) |->
                <<Repr(FloatOf(levels[i][1])), Repr(FloatOf(levels[i][2]))>>]
    IN  [timestamp |-> data.timestamp, exchange |-> data.exchange,
         symbol |-> data.symbol, asks |-> floats(data.asks),
         bids |-> floats(data.bids)]

\* json.loads returns (line 63), the required keys are there (134) and the
\* conversion of lines 139-145 raises nothing: line 148 is reached
ReachesUserCallback(m) ==
    /\ m.json
    /\ RequiredKeys \subseteq DOMAIN m.data
    /\ Converts(m.data.asks)
    /\ Converts(m.data.bids)

\* the snapshots a test harness hands to update: every book of at most
\* MaxLevels levels over three prices and three sizes
PriceTokens == {"0", "1", "2"}

QtyTokens == {"0", "1", "2"}

LevelTokens == PriceTokens \X QtyTokens

BookSnapshots ==
    UNION {
        {[timestamp |-> "t1", exchange |-> "OKX", symbol |-> "BTC-USDT-SWAP",
          asks |-> a, bids |-> b] :
            a \in [1..i -> LevelTokens], b \in [1..j -> LevelTokens]} :
        <<i, j>> \in {p \in (0..MaxLevels) \X (0..MaxLevels) : p[1] + p[2] <= MaxLevels}}

\* arguments of the getter calls
SideArgs == {"ask", "bid", "BID", "x"}

PriceArgs == 0..3

VolumeArgs == 0..(2 * max_depth + 1)

\* TradeSimulator.update_orderbook(d): Orderbook.update, then the simulator's
\* own latency record, max(total, 0.001) with 0.001 ms as the unit
update_orderbook(d, t_update, t_total) ==
    /\ orderbook' = update(orderbook, d, t_update)
    /\ sim_times' = IF UpdateRaises(orderbook, d) THEN sim_times
                    ELSE RingAppend(sim_times, Max(t_total, 1))

\* the harness applies the snapshot it holds
Ingest ==
    /\ mode = "book"
    /\ wire # None
    /\ update_orderbook(wire, 0, 0)
    /\ wire' = None
    /\ UNCHANGED <<fee_tiers, feed, reader, ret, mode, models, comparison, client>>

\* a getter only reads the book, so a run makes one getter call, on the applied snapshot
Returns(op, args, val) ==
    /\ mode = "book"
    /\ wire = None
    /\ ret = NoCall
    /\ ret' = [op |-> op, args |-> args, val |-> val]
    /\ UNCHANGED <<orderbook, fee_tiers, sim_times, wire, feed, reader, mode, models, comparison, client>>

CallMidPrice == Returns("get_mid_price", <<>>, get_mid_price(orderbook))

CallSpread == Returns("get_spread", <<>>, get_spread(orderbook))

CallSpreadPercentage ==
    Returns("get_spread_percentage", <<>>, get_spread_percentage(orderbook))

CallImbalance ==
    Returns("get_orderbook_imbalance", <<>>, get_orderbook_imbalance(orderbook))

CallVolumeUpToPrice ==
    \E side \in SideArgs, price \in PriceArgs :
        Returns("get_volume_up_to_price", <<side, price>>,
                Some(get_volume_up_to_price(orderbook, side, price)))

CallPriceForVolume ==
    \E side \in SideArgs, volume \in VolumeArgs :
        Returns("get_price_for_volume", <<side, volume>>,
                get_price_for_volume(orderbook, side, volume))

--------------------------------------------------------------------------
(* The application: snapshots from the feed, cost requests from the        *)
(* dashboard, overrides of the fee table                                   *)

\* the snapshots the feed delivers.  No two of them share a timestamp, a
\* symbol, a best ask or a best bid; S1 is unsorted and deeper than max_depth,
\* S3 has an empty ask list, S4 has no bids and no symbol key, S5 holds no
\* volume at price 0
S1 == [timestamp |-> "t1", exchange |-> "OKX", symbol |-> "BTC-USDT-SWAP",
       asks |-> <<<<"3", "1">>, <<"2", "2">>, <<"2", "1">>, <<"3", "2">>>>,
       bids |-> <<<<"0", "1">>, <<"1", "1">>, <<"1.0", "2">>, <<"0", "2">>>>]

S2 == [timestamp |-> "t2", exchange |-> "OKX", symbol |-> "ETH-USDT-SWAP",
       asks |-> <<<<"3", "1">>>>, bids |-> <<<<"2", "2">>>>]

S3 == [timestamp |-> "t3", exchange |-> "OKX", symbol |-> "SOL-USDT-SWAP",
       asks |-> <<>>, bids |-> <<<<"3", "1">>>>]

S4 == [timestamp |-> "t4", exchange |-> "OKX", asks |-> <<<<"1", "0">>>>]

S5 == [timestamp |-> "t5", exchange |-> "OKX", symbol |-> "XRP-USDT-SWAP",
       asks |-> <<<<"0", "0">>>>, bids |-> <<<<"0", "0">>>>]

Snapshots == {S1, S2, S3, S4, S5}

\* snapshots update cannot convert: a price that is no number, a quantity that
\* is no number, a level of one item
B1 == [timestamp |-> "t6", exchange |-> "OKX", symbol |-> "DOGE-USDT-SWAP",
       asks |-> <<<<"x", "1">>>>, bids |-> <<<<"1", "1">>>>]

B2 == [timestamp |-> "t7", exchange |-> "Binance", symbol |-> "BTC-USDT",
       asks |-> <<<<"2", "1">>>>, bids |-> <<<<"1", "">>>>]

B3 == [timestamp |-> "t8", exchange |-> "OKX", symbol |-> "ETH-USDT-SWAP",
       asks |-> <<<<"2", "1">>, <<"3">>>>, bids |-> <<<<"1", "1">>>>]

BadSnapshots == {B1, B2, B3}

\* the snapshots the feed cycles through while the dashboard thread is live
FeedSnapshots == {S1, S2, S3}

\* arguments of simulate_market_order; volatility in units of 0.01
SimArgs ==
    [side : {"buy", "sell", "BUY"}, quantity : {0, 1, 2},
     exchange : {"OKX", "Binance", "Kraken"},
     market_type : {"spot", "futures", "swap"},
     fee_tier : {"VIP0", "VIP3", "VIP9"}, volatility : {1}, t : {1}]

\* the request the dashboard thread repeats while the feed is running
DashboardArgs ==
    [side |-> "buy", quantity |-> 1, exchange |-> "OKX", market_type |-> "spot",
     fee_tier |-> "VIP0", volatility |-> 1, t |-> 1]

\* structures handed to add_exchange_fee_tiers: a full one, one without a
\* spot market, one without the VIP0 tier, an empty one
FullStructure ==
    [m \in {"spot"} |->
        [maker |-> [t \in {"VIP0", "VIP3"} |-> IF t = "VIP0" THEN 9 ELSE 3],
         taker |-> [t \in {"VIP0", "VIP3"} |-> IF t = "VIP0" THEN 12 ELSE 6]]]

NoSpotStructure ==
    [m \in {"futures"} |->
        [maker |-> [t \in {"VIP0"} |-> 2], taker |-> [t \in {"VIP0"} |-> 4]]]

NoVIP0Structure ==
    [m \in {"spot"} |->
        [maker |-> [t \in {"VIP3"} |-> 1], taker |-> [t \in {"VIP3"} |-> 7]]]

Structures == {FullStructure, NoSpotStructure, NoVIP0Structure, <<>>}

ExchangeArgs == {"OKX", "Binance"}

\* handle_orderbook_update -> update_orderbook(s), with no other thread running
UpdateOrderbook(s) ==
    /\ mode = "seq"
    /\ reader.pc = "idle"
    /\ update_orderbook(s, 0, 0)
    /\ feed' = [pc |-> "idle", data |-> Some(s), t |-> 0]
    /\ UNCHANGED <<fee_tiers, wire, reader, ret, mode, models, comparison, client>>

\* mutant of Simulate: the call records its processing time as
\* update_orderbook does
Simulate_RecordsLatency(args) ==
    /\ mode = "seq"
    /\ reader.pc = "idle"
    /\ reader' = simulate_market_order(orderbook, fee_tiers, args)
    /\ sim_times' = RingAppend(sim_times, args.t)
    /\ UNCHANGED <<orderbook, fee_tiers, wire, feed, ret, mode, models, comparison, client>>

\* simulate_market_order(args), with no other thread running
Simulate(args) ==
    /\ mode = "seq"
    /\ reader.pc = "idle"
    /\ reader' = simulate_market_order(orderbook, fee_tiers, args)
    /\ UNCHANGED <<orderbook, fee_tiers, sim_times, wire, feed, ret, mode, models, comparison, client>>

\* the caller takes the result (or the exception) of the call
Consume ==
    /\ mode = "seq"
    /\ reader.pc \in {"done", "raised"}
    /\ reader' = ReaderIdle
    /\ UNCHANGED <<orderbook, fee_tiers, sim_times, wire, feed, ret, mode, models, comparison, client>>

AddExchangeFeeTiers(exchange, structure) ==
    /\ mode = "seq"
    /\ reader.pc = "idle"
    /\ fee_tiers' = add_exchange_fee_tiers(fee_tiers, exchange, structure)
    /\ UNCHANGED <<orderbook, sim_times, wire, feed, reader, ret, mode, models, comparison, client>>

\* the positions of simulate_market_order between its emptiness check
\* (line 98) and the last emptiness check of the three getters (lines 105-107)
MetricReads ==
    {"mid_asks", "mid_bids", "mid_best_ask", "mid_best_bid", "spread_asks",
     "spread_bids", "spread_best_ask", "spread_best_bid", "imbalance_asks",
     "imbalance_bids"}

\* the history field of the dashboard thread after a step of the feed thread
\* that takes the book from ob to ob2
Observe(r, ob, ob2) ==
    IF r.pc \in {"idle", "done", "raised"} THEN r
    ELSE IF \/ /\ r.pc \in MetricReads \cup {"check_bids"}
               /\ ob.asks # <<>>
               /\ ob2.asks = <<>>
            \/ /\ r.pc \in MetricReads
               /\ ob.bids # <<>>
               /\ ob2.bids = <<>>
         THEN [r EXCEPT !.during = "emptied"]
    ELSE IF r.during = "none" THEN [r EXCEPT !.during = "step"]
    ELSE r

\* the feed thread enters update_orderbook(s) -> Orderbook.update(s)
FeedStart(s) ==
    /\ mode = "threads"
    /\ feed.pc = "idle"
    /\ feed' = FeedCall(s, 0)
    /\ reader' = Observe(reader, orderbook, orderbook)
    /\ UNCHANGED <<orderbook, fee_tiers, sim_times, wire, ret, mode, models, comparison, client>>

\* the feed thread takes one step of Orderbook.update
FeedAdvance ==
    /\ mode = "threads"
    /\ feed.pc \notin {"idle", "returned", "raised"}
    /\ feed' = FeedStep(feed, orderbook)[1]
    /\ orderbook' = FeedStep(feed, orderbook)[2]
    /\ reader' = Observe(reader, orderbook, FeedStep(feed, orderbook)[2])
    /\ UNCHANGED <<fee_tiers, sim_times, wire, ret, mode, models, comparison, client>>

\* back in update_orderbook: the simulator's own latency record
FeedRecord ==
    /\ mode = "threads"
    /\ feed.pc = "returned"
    /\ sim_times' = RingAppend(sim_times, Max(feed.t, 1))
    /\ feed' = [feed EXCEPT !.pc = "idle"]
    /\ reader' = Observe(reader, orderbook, orderbook)
    /\ UNCHANGED <<orderbook, fee_tiers, wire, ret, mode, models, comparison, client>>

\* the dashboard thread enters simulate_market_order
ReaderStart ==
    /\ mode = "threads"
    /\ reader.pc \in {"idle", "done", "raised"}
    /\ reader' = [ReaderCall(DashboardArgs) EXCEPT
                      !.during = IF feed.pc = "idle" THEN "none" ELSE "step"]
    /\ UNCHANGED <<orderbook, fee_tiers, sim_times, wire, feed, ret, mode, models, comparison, client>>

\* the dashboard thread takes one step of simulate_market_order
ReaderAdvance ==
    /\ mode = "threads"
    /\ reader.pc \notin {"idle", "done", "raised"}
    /\ reader' = SimStep(reader, orderbook, fee_tiers)
    /\ UNCHANGED <<orderbook, fee_tiers, sim_times, wire, feed, ret, mode, models, comparison, client>>

\* Application.handle_orderbook_update(s): update_orderbook(s) inside
\* try/except; ret records the call, whether it raised, and the book before it
HandleOrderbookUpdate(s) ==
    /\ mode = "ingest"
    /\ update_orderbook(s, 0, 0)
    /\ ret' = [op |-> "update_orderbook", args |-> <<s>>,
               val |-> IF UpdateRaises(orderbook, s) THEN Raise("ValueError")
                       ELSE Ok(Max(0, 1)),
               before |-> orderbook]
    /\ UNCHANGED <<fee_tiers, wire, feed, reader, mode, models, comparison, client>>

\* arguments of direct calls of the fee model
FeeExchanges == {"OKX", "Binance", "Kraken"}

MarketTypes == {"spot", "futures", "swap"}

FeeTierArgs == {"VIP0", "VIP3", "VIP9"}

OrderValues == {Rat(-2, 1), Rat(0, 1), Rat(1, 2), Rat(3, 1)}

MakerProportions == {Rat(0, 1), Rat(1, 4), Rat(1, 2), Rat(1, 1)}

\* a call of the fee model returns (or raises); ret records it.  A lookup only
\* reads the table, so a run makes one lookup per state of the table
FeeReturns(op, args, val) ==
    /\ mode = "fee"
    /\ ret.op \in {"none", "add_exchange_fee_tiers"}
    /\ ret' = [op |-> op, args |-> args, val |-> val]
    /\ UNCHANGED <<orderbook, fee_tiers, sim_times, wire, feed, reader, mode, models, comparison, client>>

\* fee_model.add_exchange_fee_tiers(exchange, structure), called on the fee model
FeeOverride(exchange, structure) ==
    /\ mode = "fee"
    /\ fee_tiers' = add_exchange_fee_tiers(fee_tiers, exchange, structure)
    /\ ret' = [op |-> "add_exchange_fee_tiers", args |-> <<exchange, structure>>,
               val |-> None]
    /\ UNCHANGED <<orderbook, sim_times, wire, feed, reader, mode, models, comparison, client>>

CallGetFeeRate ==
    \E exchange \in FeeExchanges, market_type \in MarketTypes,
       fee_tier \in FeeTierArgs, is_maker \in BOOLEAN :
        FeeReturns("get_fee_rate", <<exchange, market_type, fee_tier, is_maker>>,
                   get_fee_rate(fee_tiers, exchange, market_type, fee_tier, is_maker))

\* calculate_fee on numbers: the rates it looks up, then the breakdown
CallCalculateFee ==
    \E order_value \in OrderValues, exchange \in FeeExchanges,
       market_type \in MarketTypes, fee_tier \in FeeTierArgs,
       maker_proportion \in MakerProportions :
        LET fee == calculate_fee(fee_tiers, order_value, exchange, market_type,
                                 fee_tier, maker_proportion)
        IN  FeeReturns("calculate_fee",
                       <<order_value, exchange, market_type, fee_tier, maker_proportion>>,
                       IF fee.ok
                       THEN Ok(FeeBreakdown(fee.val.args[1], fee.val.args[2],
                                            RateOf(fee.val.args[3]),
                                            RateOf(fee.val.args[4])))
                       ELSE fee)

\* latencies (units of 0.001 ms) the clock gives Orderbook.update and
\* update_orderbook; a clock set back gives a negative one
UpdateLatencies == {0, 1, 3}

TotalLatencies == {-1, 0, 2}

\* update_orderbook(S2) measuring the latencies t_update and t_total; ret
\* records the call, the value it returns and the two lists as they were
TimedUpdate(t_update, t_total) ==
    /\ mode = "latency"
    /\ update_orderbook(S2, t_update, t_total)
    /\ ret' = [op |-> "update_orderbook", args |-> <<t_update, t_total>>,
               val |-> Some(Max(t_total, 1)),
               before |-> <<orderbook.processing_times, sim_times>>]
    /\ UNCHANGED <<fee_tiers, wire, feed, reader, mode, models, comparison, client>>

LatencyReturns(op, val) ==
    /\ mode = "latency"
    /\ ret' = [op |-> op, args |-> <<>>, val |-> Some(val)]
    /\ UNCHANGED <<orderbook, fee_tiers, sim_times, wire, feed, reader, mode, models, comparison, client>>

\* simulator.orderbook.get_average_processing_time()
CallAverageUpdateTime ==
    LatencyReturns("Orderbook.get_average_processing_time",
                   get_average_processing_time(orderbook.processing_times))

\* simulator.get_average_processing_time()
CallAverageTotalTime ==
    LatencyReturns("TradeSimulator.get_average_processing_time",
                   get_average_processing_time(sim_times))

\* arguments of calculate_optimal_execution_schedule: a negative horizon and
\* the horizon 0 among them, the volatility 0 (alpha = 0) and two large ones
TotalSizes == {Rat(0, 1), Rat(1, 1), Rat(2, 1), Rat(3, 1), Rat(6, 1)}

TimeHorizons ==
    {Rat(-1, 8), Rat(0, 1), Rat(1, 4), Rat(1, 2), Rat(3, 4), Rat(1, 1), Rat(5, 4)}

Volatilities == {Rat(0, 1), Rat(100, 1), Rat(200, 1)}

\* market_impact_model.calculate_optimal_execution_schedule(...) on a model
\* with the default factors
CallSchedule ==
    \E total_size \in TotalSizes, time_horizon \in TimeHorizons,
       volatility \in Volatilities :
        /\ mode = "schedule"
        /\ ret.op = "none"
        /\ ret' = [op |-> "calculate_optimal_execution_schedule",
                   args |-> <<total_size, time_horizon, volatility>>,
                   val |-> calculate_optimal_execution_schedule(
                               total_size, time_horizon, volatility,
                               DefaultRiskAversion)]
        /\ UNCHANGED <<orderbook, fee_tiers, sim_times, wire, feed, reader, mode, models, comparison, client>>

\* the thread of AlmgrenChrissVisualizer.compare_risk_aversion at rest.
\* constructed is the risk aversion the model object was constructed with
\* (the code keeps no such copy; the model keeps it to state properties)
CompareIdle(constructed) ==
    [pc |-> "idle", args |-> None, original_risk_aversion |-> None, rest |-> <<>>,
     plotted |-> <<>>, constructed |-> constructed]

\* arguments of compare_risk_aversion and of the calls of the other thread
ConstructedRiskAversions == {DefaultRiskAversion, Rat(4, 1000)}

RiskAversionLists ==
    {<<>>, <<Rat(0, 1)>>, <<Rat(4, 1000), Rat(0, 1)>>, <<Rat(1, 1000), Rat(4, 1000)>>}

CompareArgs ==
    [total_size : {Rat(2, 1)}, time_horizon : {Rat(3, 4)}, volatility : {Rat(100, 1)},
     risk_aversions : RiskAversionLists]

\* mutant of RestoredRiskAversion: the model keeps the last value compared
RestoredRiskAversion_LastCompared(c) ==
    LET risk_aversions == c.args[1].risk_aversions
    IN  IF risk_aversions = <<>> THEN c.original_risk_aversion[1]
        ELSE risk_aversions[Len(risk_aversions)]

\* line 123: the value written back after the loop
RestoredRiskAversion(c) == c.original_risk_aversion[1]

\* the thread enters compare_risk_aversion(args)
CompareStart(args) ==
    /\ mode = "compare"
    /\ comparison.pc \in {"idle", "returned"}
    /\ comparison' = [comparison EXCEPT !.pc = "store_original", !.args = Some(args),
                                        !.original_risk_aversion = None,
                                        !.rest = args.risk_aversions,
                                        !.plotted = <<>>]
    /\ UNCHANGED <<orderbook, fee_tiers, sim_times, wire, feed, reader, ret, mode, models, client>>

\* one step of compare_risk_aversion: every access to self.model.risk_aversion
\* is a step of its own
CompareAdvance ==
    /\ mode = "compare"
    /\ comparison.pc \notin {"idle", "returned"}
    /\ LET a == comparison.args[1]
           model == models.market_impact_model
       IN  CASE comparison.pc = "store_original" ->
                  \* line 100
                  /\ comparison' = [comparison EXCEPT
                                       !.pc = "loop",
                                       !.original_risk_aversion = Some(model.risk_aversion)]
                  /\ models' = models
             [] comparison.pc = "loop" /\ comparison.rest # <<>> ->
                  \* line 105
                  /\ models' = [models EXCEPT !.market_impact_model.risk_aversion =
                                                  Head(comparison.rest)]
                  /\ comparison' = [comparison EXCEPT !.pc = "schedule"]
             [] comparison.pc = "schedule" ->
                  \* lines 108-120: the schedule reads self.risk_aversion (line 147
                  \* of market_impact.py); the curve is plotted
                  /\ comparison' =
                         [comparison EXCEPT
                             !.pc = "loop",
                             !.rest = Tail(@),
                             !.plotted =
                                 Append(@, calculate_optimal_execution_schedule(
                                               a.total_size, a.time_horizon, a.volatility,
                                               model.risk_aversion).trade_sizes)]
                  /\ models' = models
             [] comparison.pc = "loop" /\ comparison.rest = <<>> ->
                  \* line 123
                  /\ models' = [models EXCEPT !.market_impact_model.risk_aversion =
                                                  RestoredRiskAversion(comparison)]
                  /\ comparison' = [comparison EXCEPT !.pc = "returned"]
    /\ UNCHANGED <<orderbook, fee_tiers, sim_times, wire, feed, reader, ret, mode, client>>

\* another thread calls calculate_market_impact on the same model object: ret
\* records the risk aversion the call read (line 100 of market_impact.py)
OtherCallsMarketImpact ==
    /\ mode = "compare"
    /\ LET risk_aversion == models.market_impact_model.risk_aversion
       IN  ret' = [op |-> "calculate_market_impact", args |-> <<1, 100, Rat(1, 1)>>,
                   risk_aversion |-> risk_aversion,
                   val |-> calculate_market_impact(1, 100, Rat(1, 1), Rat(2, 1), 1,
                                                   risk_aversion)]
    /\ UNCHANGED <<orderbook, fee_tiers, sim_times, wire, feed, reader, mode, models, comparison, client>>

\* another thread calls calculate_optimal_execution_schedule on the same model
\* object (the risk aversion is read at line 147)
OtherCallsSchedule ==
    /\ mode = "compare"
    /\ LET risk_aversion == models.market_impact_model.risk_aversion
       IN  ret' = [op |-> "calculate_optimal_execution_schedule",
                   args |-> <<Rat(1, 1), Rat(1, 2), Rat(100, 1)>>,
                   risk_aversion |-> risk_aversion,
                   val |-> calculate_optimal_execution_schedule(
                               Rat(1, 1), Rat(1, 2), Rat(100, 1), risk_aversion)]
    /\ UNCHANGED <<orderbook, fee_tiers, sim_times, wire, feed, reader, mode, models, comparison, client>>

\* arguments of direct calls of the two estimators; log1p of the order size
\* -2 is nan
RegressionTypes == {"linear", "quantile", "ridge"}

TrainingSets == [rows : {0, 9, 10, 11}, accepted : BOOLEAN]

OrderSizes == {-2, 0, 2, 5}

Spreads == {0, 3}

EstimatorVolatilities == {Rat(-5, 1), Rat(0, 1), Rat(3, 10), Rat(5, 1)}

Imbalances == {Rat(-1, 1), Rat(0, 1), Rat(1, 1)}

\* what a fitted sklearn object can answer: any float for a regressor, a
\* probability for predict_proba
Predictions == {Rat(-1, 1), Rat(0, 1), Rat(2, 1)}

Probabilities == {Rat(0, 1), Rat(1, 3), Rat(1, 1)}

\* a call on one of the estimators returns (or raises); ret records it.  An
\* estimate only reads the object, so a run makes one estimate per state of
\* the objects
EstimatorReturns(op, args, val, after) ==
    /\ mode = "estimators"
    /\ ret.op \notin {"estimate_slippage", "estimate_maker_proportion"}
    /\ ret' = [op |-> op, args |-> args, val |-> val]
    /\ models' = after
    /\ UNCHANGED <<orderbook, fee_tiers, sim_times, wire, feed, reader, mode, comparison, client>>

\* SlippageModel(regression_type)
ConstructSlippageModel(regression_type) ==
    EstimatorReturns("SlippageModel", <<regression_type>>, Ok(None),
                     [models EXCEPT !.slippage_model = NewSlippageModel(regression_type)])

FitSlippageModel(X) ==
    LET out == SlippageModel_fit(models.slippage_model, X)
    IN  EstimatorReturns("SlippageModel.fit", <<X>>, out[1],
                         [models EXCEPT !.slippage_model = out[2]])

FitMakerTakerModel(X) ==
    LET out == MakerTakerModel_fit(models.maker_taker_model, X)
    IN  EstimatorReturns("MakerTakerModel.fit", <<X>>, out[1],
                         [models EXCEPT !.maker_taker_model = out[2]])

CallEstimateSlippage ==
    \E order_size \in OrderSizes, spread \in Spreads,
       volatility \in EstimatorVolatilities, imbalance \in Imbalances,
       prediction \in Predictions :
        EstimatorReturns("estimate_slippage",
                         <<order_size, spread, volatility, imbalance>>,
                         SlippageModel_estimate_slippage(
                             models.slippage_model, order_size, spread, volatility,
                             imbalance, prediction),
                         models)

CallEstimateMakerProportion ==
    \E order_size \in OrderSizes, spread \in Spreads,
       volatility \in EstimatorVolatilities, imbalance \in Imbalances,
       probability \in Probabilities :
        EstimatorReturns("estimate_maker_proportion",
                         <<order_size, spread, volatility, imbalance>>,
                         MakerTakerModel_estimate_maker_proportion(
                             models.maker_taker_model, order_size, spread, volatility,
                             imbalance, probability),
                         models)

\* the state after TradeSimulator.__init__
InitRest ==
    /\ orderbook = NewOrderbook
    /\ fee_tiers = DefaultFeeTiers
    /\ sim_times = <<>>
    /\ feed = FeedIdle
    /\ reader = ReaderIdle
    /\ ret = NoCall
    /\ models = NewModels
    /\ comparison = CompareIdle(DefaultRiskAversion)
    /\ client = NewWebSocketClient

InitBook ==
    /\ InitRest
    /\ mode = "book"
    /\ wire \in BookSnapshots

NextBook ==
    \/ Ingest
    \/ CallMidPrice
    \/ CallSpread
    \/ CallSpreadPercentage
    \/ CallImbalance
    \/ CallVolumeUpToPrice
    \/ CallPriceForVolume

\* one snapshot applied to a fresh book, then one call of a metric getter
SpecBook == InitBook /\ [][NextBook]_vars

InitFee ==
    /\ InitRest
    /\ mode = "fee"
    /\ wire = None

NextFee ==
    \/ \E exchange \in ExchangeArgs, structure \in Structures :
           FeeOverride(exchange, structure)
    \/ CallGetFeeRate
    \/ CallCalculateFee

\* the fee model on its own: overrides of the table and lookups
SpecFee == InitFee /\ [][NextFee]_vars

InitLatency ==
    /\ InitRest
    /\ mode = "latency"
    /\ wire = None

NextLatency ==
    \/ \E t_update \in UpdateLatencies, t_total \in TotalLatencies :
           TimedUpdate(t_update, t_total)
    \/ CallAverageUpdateTime
    \/ CallAverageTotalTime

\* updates with their measured latencies, and reads of the averages
SpecLatency == InitLatency /\ [][NextLatency]_vars

InitSchedule ==
    /\ InitRest
    /\ mode = "schedule"
    /\ wire = None

NextSchedule == CallSchedule

\* one call of calculate_optimal_execution_schedule on a fresh model
SpecSchedule == InitSchedule /\ [][NextSchedule]_vars

InitEstimators ==
    /\ InitRest
    /\ mode = "estimators"
    /\ wire = None

NextEstimators ==
    \/ \E regression_type \in RegressionTypes : ConstructSlippageModel(regression_type)
    \/ \E X \in TrainingSets : FitSlippageModel(X)
    \/ \E X \in TrainingSets : FitMakerTakerModel(X)
    \/ CallEstimateSlippage
    \/ CallEstimateMakerProportion

\* the two estimators on their own: construction, fits and estimates
SpecEstimators == InitEstimators /\ [][NextEstimators]_vars

\* a model constructed with a risk aversion of its own, shared between the
\* visualizer and another thread
InitCompare ==
    /\ orderbook = NewOrderbook
    /\ fee_tiers = DefaultFeeTiers
    /\ sim_times = <<>>
    /\ feed = FeedIdle
    /\ reader = ReaderIdle
    /\ ret = NoCall
    /\ wire = None
    /\ client = NewWebSocketClient
    /\ mode = "compare"
    /\ \E risk_aversion \in ConstructedRiskAversions :
           /\ models = [NewModels EXCEPT !.market_impact_model.risk_aversion = risk_aversion]
           /\ comparison = CompareIdle(risk_aversion)

NextCompare ==
    \/ \E args \in CompareArgs : CompareStart(args)
    \/ CompareAdvance
    \/ OtherCallsMarketImpact
    \/ OtherCallsSchedule

\* compare_risk_aversion step by step, with calls of another thread on the
\* same AlmgrenChrissModel in between
SpecCompare == InitCompare /\ [][NextCompare]_vars

\* frames the server sends: one that is no JSON, one without symbol and bids,
\* three with a price, a quantity or a level that does not convert, three good
NotJSON == [json |-> FALSE, data |-> <<>>]

Frame(d) == [json |-> TRUE, data |-> d]

Messages == {NotJSON} \cup {Frame(d) : d \in {S1, S2, S3, S4, B1, B2, B3}}

\* connect is called (lines 46-47)
Connect ==
    /\ mode = "transport"
    /\ client.pc = "idle"
    /\ client' = [client EXCEPT !.pc = "loop", !.running = TRUE,
                                !.connection_attempts = 0]
    /\ UNCHANGED <<orderbook, fee_tiers, sim_times, wire, feed, reader, ret, mode, models, comparison>>

\* the loop condition of line 49
LoopTest ==
    /\ mode = "transport"
    /\ client.pc = "loop"
    /\ client' = [client EXCEPT !.pc =
           IF client.running /\ client.connection_attempts < max_connection_attempts
           THEN "attempt" ELSE "after_loop"]
    /\ UNCHANGED <<orderbook, fee_tiers, sim_times, wire, feed, reader, ret, mode, models, comparison>>

\* lines 51-54 and 72: the attempt is counted and websockets.connect raises
AttemptFails ==
    /\ mode = "transport"
    /\ client.pc = "attempt"
    /\ client' = [client EXCEPT !.pc = "backoff",
                                !.connection_attempts = @ + 1,
                                !.failed = @ + 1]
    /\ UNCHANGED <<orderbook, fee_tiers, sim_times, wire, feed, reader, ret, mode, models, comparison>>

\* lines 51-56: the attempt is counted, the connection opens and the counter
\* is reset
AttemptSucceeds ==
    /\ mode = "transport"
    /\ client.pc = "attempt"
    /\ client' = [client EXCEPT !.pc = "receiving",
                                !.connection_attempts = 0,
                                !.failed = 0]
    /\ UNCHANGED <<orderbook, fee_tiers, sim_times, wire, feed, reader, ret, mode, models, comparison>>

\* mutant of OnMessage: without the handlers of lines 65-68 and 150-151 an
\* exception of the message ends the connection
OnMessage_ErrorEndsConnection(m) ==
    /\ mode = "transport"
    /\ client.pc = "receiving"
    /\ IF ReachesUserCallback(m)
       THEN update_orderbook(ProcessedData(m.data), 0, 0)
       ELSE UNCHANGED <<orderbook, sim_times>>
    /\ ret' = [op |-> "on_message", args |-> <<m>>,
               val |-> Ok(ReachesUserCallback(m)), before |-> orderbook]
    /\ client' = IF ReachesUserCallback(m) THEN client
                 ELSE [client EXCEPT !.pc = "backoff"]
    /\ UNCHANGED <<fee_tiers, wire, feed, reader, mode, models, comparison>>

\* lines 60-68: one frame of the open connection goes through json.loads,
\* _process_orderbook and, when line 148 is reached, handle_orderbook_update;
\* ret records the frame, whether the user callback was invoked, and the book
\* before the frame
OnMessage(m) ==
    /\ mode = "transport"
    /\ client.pc = "receiving"
    /\ IF ReachesUserCallback(m)
       THEN update_orderbook(ProcessedData(m.data), 0, 0)
       ELSE UNCHANGED <<orderbook, sim_times>>
    /\ ret' = [op |-> "on_message", args |-> <<m>>,
               val |-> Ok(ReachesUserCallback(m)), before |-> orderbook]
    /\ UNCHANGED <<fee_tiers, wire, feed, reader, mode, models, comparison, client>>

\* the connection ends: the iteration of line 60 stops or raises (70-73)
ConnectionCloses ==
    /\ mode = "transport"
    /\ client.pc = "receiving"
    /\ client' = [client EXCEPT !.pc = "backoff"]
    /\ UNCHANGED <<orderbook, fee_tiers, sim_times, wire, feed, reader, ret, mode, models, comparison>>

\* lines 75-77: the pause before the next round (skipped when not running)
Backoff ==
    /\ mode = "transport"
    /\ client.pc = "backoff"
    /\ client' = [client EXCEPT !.pc = "loop"]
    /\ UNCHANGED <<orderbook, fee_tiers, sim_times, wire, feed, reader, ret, mode, models, comparison>>

\* lines 79-81, and connect returns
AfterLoop ==
    /\ mode = "transport"
    /\ client.pc = "after_loop"
    /\ client' = [client EXCEPT !.pc = "ended", !.running =
           IF client.connection_attempts >= max_connection_attempts THEN FALSE
           ELSE @]
    /\ UNCHANGED <<orderbook, fee_tiers, sim_times, wire, feed, reader, ret, mode, models, comparison>>

\* disconnect(), called by another task or thread while connect runs
Disconnect ==
    /\ mode = "transport"
    /\ client.pc \notin {"idle", "ended"}
    /\ client.running
    /\ client' = [client EXCEPT !.running = FALSE, !.disconnected = TRUE]
    /\ UNCHANGED <<orderbook, fee_tiers, sim_times, wire, feed, reader, ret, mode, models, comparison>>

InitTransport ==
    /\ InitRest
    /\ mode = "transport"
    /\ wire = None

\* the steps of the coroutine itself
ConnectSteps == LoopTest \/ AttemptFails \/ AttemptSucceeds \/ Backoff \/ AfterLoop

NextTransport ==
    \/ Connect
    \/ LoopTest
    \/ AttemptFails
    \/ AttemptSucceeds
    \/ \E m \in Messages : OnMessage(m)
    \/ ConnectionCloses
    \/ Backoff
    \/ AfterLoop
    \/ Disconnect

\* the websocket client of Application.run_websocket_client
SpecTransport == InitTransport /\ [][NextTransport]_vars

\* the event loop resumes the coroutine whenever it can take a step of its
\* own; when the server sends a frame or closes is not up to the client
SpecConnect == SpecTransport /\ WF_vars(ConnectSteps)

InitIngest ==
    /\ InitRest
    /\ mode = "ingest"
    /\ wire = None

NextIngest == \E s \in Snapshots \cup BadSnapshots : HandleOrderbookUpdate(s)

\* snapshots handed to handle_orderbook_update one after the other, some of
\* which update cannot convert
SpecIngest == InitIngest /\ [][NextIngest]_vars

Init ==
    /\ InitRest
    /\ mode = "seq"
    /\ wire = None

Next ==
    \/ \E s \in Snapshots : UpdateOrderbook(s)
    \/ \E args \in SimArgs : Simulate(args)
    \/ Consume
    \/ \E exchange \in ExchangeArgs, structure \in Structures :
           AddExchangeFeeTiers(exchange, structure)

\* the calls of the application, one at a time
Spec == Init /\ [][Next]_vars

InitThreads ==
    /\ InitRest
    /\ mode = "threads"
    /\ wire = None

NextThreads ==
    \/ \E s \in FeedSnapshots : FeedStart(s)
    \/ FeedAdvance
    \/ FeedRecord
    \/ ReaderStart
    \/ ReaderAdvance

\* the feed thread and the dashboard thread of Application.run, interleaved
SpecThreads == InitThreads /\ [][NextThreads]_vars

--------------------------------------------------------------------------
(* Properties of the order book, checked under SpecBook *)

\* the stored levels of the side a getter's side argument selects
SideLevels(side) ==
    IF Lower(side) = "ask" THEN orderbook.asks
    ELSE IF Lower(side) = "bid" THEN orderbook.bids
    ELSE <<>>

BothSides == orderbook.asks # <<>> /\ orderbook.bids # <<>>

Prices(levels) == {levels[i][1] : i \in 1..Len(levels)}

LowestPrice(levels) == CHOOSE p \in Prices(levels) : \A q \in Prices(levels) : p <= q

HighestPrice(levels) == CHOOSE p \in Prices(levels) : \A q \in Prices(levels) : p >= q

\* total size of the levels whose index is in the set I
RECURSIVE QtyOver(_, _)
QtyOver(levels, I) ==
    IF I = {} THEN 0
    ELSE LET i == CHOOSE i \in I : TRUE
         IN  levels[i][2] + QtyOver(levels, I \ {i})

TotalQty(levels) == QtyOver(levels, 1..Len(levels))

\* p is at least as good a price as q on that side: lower for asks, higher for bids
Reaches(side, p, q) == IF Lower(side) = "ask" THEN p <= q ELSE p >= q

\* total size of the stored levels priced at threshold or better
QtyWithin(side, threshold) ==
    LET levels == SideLevels(side)
    IN  QtyOver(levels, {i \in 1..Len(levels) : Reaches(side, levels[i][1], threshold)})

\* C5: the stored asks are non-decreasing by price, the stored bids are
\* non-increasing by price, and each side holds at most max_depth levels.
C5_SortedAndTruncated ==
    /\ \A i, j \in 1..Len(orderbook.asks) :
           i < j => orderbook.asks[i][1] <= orderbook.asks[j][1]
    /\ \A i, j \in 1..Len(orderbook.bids) :
           i < j => orderbook.bids[i][1] >= orderbook.bids[j][1]
    /\ Len(orderbook.asks) <= max_depth
    /\ Len(orderbook.bids) <= max_depth

\* an applied snapshot filled the ask side to max_depth with two different prices
C5_Witness ==
    /\ wire = None
    /\ Len(orderbook.asks) = max_depth
    /\ orderbook.asks[1][1] < orderbook.asks[max_depth][1]
    /\ Len(orderbook.bids) >= 1

\* C7: with both sides non-empty get_mid_price is (lowest ask + highest bid) / 2
\* and get_spread is lowest ask - highest bid; the three getters return no
\* value exactly when a side is empty, get_spread_percentage also when the
\* mid price is 0.
C7_MidAndSpread ==
    LET a == LowestPrice(orderbook.asks)
        b == HighestPrice(orderbook.bids)
    IN  /\ ret.op = "get_mid_price" =>
              IF BothSides
              THEN ret.val # None /\ ret.val[1][1] * 2 = (a + b) * ret.val[1][2]
              ELSE ret.val = None
        /\ ret.op = "get_spread" =>
              IF BothSides THEN ret.val = Some(a - b) ELSE ret.val = None
        /\ ret.op = "get_spread_percentage" =>
              (ret.val = None <=> (~BothSides \/ a + b = 0))

\* get_mid_price answered on a book whose ask side holds two prices
C7_Witness ==
    /\ ret.op = "get_mid_price"
    /\ BothSides
    /\ Cardinality(Prices(orderbook.asks)) = 2
    /\ ret.val # None
    /\ ret.val[1][2] = 2

\* C8 as claimed: for any volume v the side's total depth can fill,
\* get_price_for_volume returns the price of the first level at which
\* get_volume_up_to_price reaches v; with less depth than v it returns no value.
C8_PriceForVolumeAsClaimed ==
    ret.op = "get_price_for_volume" /\ Lower(ret.args[1]) \in {"ask", "bid"} =>
        LET side == ret.args[1]
            v == ret.args[2]
            levels == SideLevels(side)
        IN  IF TotalQty(levels) < v THEN ret.val = None
            ELSE /\ ret.val # None
                 /\ ret.val[1] \in Prices(levels)
                 /\ get_volume_up_to_price(orderbook, side, ret.val[1]) >= v
                 /\ \A q \in Prices(levels) :
                        (q # ret.val[1] /\ Reaches(side, q, ret.val[1]))
                            => get_volume_up_to_price(orderbook, side, q) < v

\* C8 amended: the same on a non-empty side; on an empty side the getter
\* returns no value for every volume, 0 included.
C8_PriceForVolume ==
    ret.op = "get_price_for_volume" /\ Lower(ret.args[1]) \in {"ask", "bid"} =>
        LET side == ret.args[1]
            v == ret.args[2]
            levels == SideLevels(side)
        IN  IF levels = <<>> \/ TotalQty(levels) < v THEN ret.val = None
            ELSE /\ ret.val # None
                 /\ ret.val[1] \in Prices(levels)
                 /\ get_volume_up_to_price(orderbook, side, ret.val[1]) >= v
                 /\ \A q \in Prices(levels) :
                        (q # ret.val[1] /\ Reaches(side, q, ret.val[1]))
                            => get_volume_up_to_price(orderbook, side, q) < v

\* a volume that the first bid level cannot fill and the second can
C8_Witness ==
    /\ ret.op = "get_price_for_volume"
    /\ Lower(ret.args[1]) = "bid"
    /\ Len(orderbook.bids) = 2
    /\ orderbook.bids[1][1] > orderbook.bids[2][1]
    /\ ret.args[2] > orderbook.bids[1][2]
    /\ ret.val = Some(orderbook.bids[2][1])

\* C9: get_volume_up_to_price is monotone in its threshold (for asks a higher
\* threshold, for bids a lower one, never gives less), and on a stored book
\* it equals the total size of the side's levels that satisfy the threshold.
C9_VolumeUpToPrice ==
    ret.op = "get_volume_up_to_price" /\ Lower(ret.args[1]) \in {"ask", "bid"} =>
        LET side == ret.args[1]
            p1 == ret.args[2]
        IN  /\ ret.val = Some(QtyWithin(side, p1))
            /\ \A p2 \in PriceArgs :
                   Reaches(side, p1, p2) =>
                       ret.val[1] <= get_volume_up_to_price(orderbook, side, p2)

\* a threshold that admits the first ask level and stops the scan at the second
C9_Witness ==
    /\ ret.op = "get_volume_up_to_price"
    /\ ret.args[1] = "ask"
    /\ Len(orderbook.asks) = 2
    /\ orderbook.asks[1][1] <= ret.args[2]
    /\ orderbook.asks[2][1] > ret.args[2]
    /\ orderbook.asks[1][2] > 0
    /\ orderbook.asks[2][2] > 0

\* C10: get_orderbook_imbalance returns no value when a side is empty, 0 when
\* both sides are non-empty and hold no volume, and otherwise
\* (bidVolume - askVolume) / (bidVolume + askVolume), which lies in [-1, 1].
C10_Imbalance ==
    ret.op = "get_orderbook_imbalance" =>
        LET bidVolume == TotalQty(orderbook.bids)
            askVolume == TotalQty(orderbook.asks)
        IN  IF ~BothSides THEN ret.val = None
            ELSE /\ ret.val # None
                 /\ ret.val[1][2] > 0
                 /\ IF bidVolume + askVolume = 0 THEN ret.val[1][1] = 0
                    ELSE ret.val[1][1] * (bidVolume + askVolume)
                             = (bidVolume - askVolume) * ret.val[1][2]
                 /\ -ret.val[1][2] <= ret.val[1][1]
                 /\ ret.val[1][1] <= ret.val[1][2]

\* more ask volume than bid volume: a negative imbalance strictly inside the range
C10_Witness ==
    /\ ret.op = "get_orderbook_imbalance"
    /\ BothSides
    /\ TotalQty(orderbook.bids) > 0
    /\ TotalQty(orderbook.asks) > TotalQty(orderbook.bids)
    /\ ret.val # None
    /\ ret.val[1][1] < 0

--------------------------------------------------------------------------
(* Properties of update, checked under Spec *)

\* number of levels of a list that satisfy the test
Count(levels, Test(_)) == Cardinality({i \in 1..Len(levels) : Test(levels[i])})

\* stored holds the `depth` best-priced levels of given, and nothing else:
\* every stored level is a level of given, as often at most, and for every
\* price x as many stored levels are priced at x or better as given offers, up
\* to the stored length
BestLevels(stored, given, depth, Better(_, _)) ==
    /\ Len(stored) = Min(depth, Len(given))
    /\ \A i \in 1..Len(stored) :
           LET Same(l) == l = stored[i]
           IN  Count(stored, Same) <= Count(given, Same)
    /\ \A j \in 1..Len(given) :
           LET AtLeastAsGood(l) == Better(l[1], given[j][1])
           IN  Count(stored, AtLeastAsGood)
                   = Min(Len(stored), Count(given, AtLeastAsGood))

LowerOrEqual(p, q) == p <= q

HigherOrEqual(p, q) == p >= q

\* the floats of the levels a snapshot gives under key, none without the key
GivenLevels(d, key) ==
    IF key \in DOMAIN d
    THEN [i \in 1..Len(d[key]) |-> <<FloatOf(d[key][i][1]), FloatOf(d[key][i][2])>>]
    ELSE <<>>

\* the book is what the snapshot d alone determines
BookIsFrom(d) ==
    /\ BestLevels(orderbook.asks, GivenLevels(d, "asks"), max_depth, LowerOrEqual)
    /\ BestLevels(orderbook.bids, GivenLevels(d, "bids"), max_depth, HigherOrEqual)
    /\ orderbook.timestamp = IF "timestamp" \in DOMAIN d THEN <<d.timestamp>> ELSE <<>>
    /\ orderbook.exchange = IF "exchange" \in DOMAIN d THEN <<d.exchange>> ELSE <<>>
    /\ orderbook.symbol = IF "symbol" \in DOMAIN d THEN <<d.symbol>> ELSE <<>>

BookView ==
    <<orderbook.asks, orderbook.bids, orderbook.timestamp, orderbook.exchange,
      orderbook.symbol>>

\* C6: after update(s) the book is a function of s alone: the max_depth
\* lowest asks and highest bids of s, its timestamp, exchange and symbol, no
\* level of an earlier snapshot, an empty side for a missing one; applying
\* the snapshot that was applied last changes nothing; older and duplicate
\* snapshots are applied like any other.
C6_BookIsFunctionOfSnapshot ==
    /\ [](feed.data # None => BookIsFrom(feed.data[1]))
    /\ [][\A s \in Snapshots :
             (UpdateOrderbook(s) /\ feed.data = Some(s)) => BookView' = BookView]_vars
    /\ [][\A s \in Snapshots : UpdateOrderbook(s) => feed'.data = Some(s)]_vars

\* S2 applied as a second or later update: the book holds its one ask level only
C6_Witness ==
    /\ feed.data = Some(S2)
    /\ Len(orderbook.processing_times) >= 2
    /\ orderbook.timestamp = Some("t2")
    /\ Len(orderbook.asks) = 1

--------------------------------------------------------------------------
(* Properties of simulate_market_order, checked under Spec *)

CostFields ==
    {"timestamp", "exchange", "symbol", "side", "quantity", "mid_price",
     "execution_price", "order_value", "maker_proportion", "fees", "slippage",
     "slippage_percentage", "market_impact", "market_impact_percentage",
     "net_cost", "net_cost_percentage", "processing_time"}

\* C3 as claimed: for every side, quantity >= 0, exchange, market type and
\* fee tier, after any updates and fee-table overrides, simulate_market_order
\* never raises and returns either all cost fields or an error result.
C3_NeverRaises ==
    /\ reader.pc # "raised"
    /\ reader.pc = "done" =>
           \/ DOMAIN reader.result[1] = CostFields
           \/ DOMAIN reader.result[1] = {"error"}

\* C4: with an empty ask side or an empty bid side (also before any
\* snapshot) simulate_market_order returns a result that carries the
\* empty-order-book tag and nothing else, and calls none of the maker/taker
\* estimator, the fee model, the slippage estimator and the impact model.
C4_EmptyBookError ==
    (reader.pc \in {"done", "raised"}
        /\ (orderbook.asks = <<>> \/ orderbook.bids = <<>>))
    => /\ reader.pc = "done"
       /\ reader.result = <<[error |-> "Orderbook is empty"]>>
       /\ reader.calls = {}
       /\ reader.costs = <<>>

\* a call on the book of S4, which has asks and no bids
C4_Witness ==
    /\ reader.pc = "done"
    /\ feed.data = Some(S4)
    /\ orderbook.asks # <<>>
    /\ orderbook.bids = <<>>
    /\ reader.args # None
    /\ reader.args.quantity = 2

--------------------------------------------------------------------------
(* Properties of the two threads, checked under SpecThreads *)

\* the book an uninterrupted update(s) leaves
BookOf(s) == update(NewOrderbook, s, 0)

\* C1 as claimed: a reader running beside update never observes a mixed
\* book: the best ask and the best bid it combines into a mid price or a
\* spread come from one and the same snapshot.
C1_ReaderSeesOneSnapshot ==
    /\ reader.mid_price # None =>
           \E s \in FeedSnapshots : reader.mid_price = get_mid_price(BookOf(s))
    /\ reader.spread # None =>
           \E s \in FeedSnapshots : reader.spread = get_spread(BookOf(s))

\* C2 as claimed: every successful result is taken from one single snapshot:
\* its mid price, the spread, imbalance and depth given to the fee, slippage
\* and impact routines, its timestamp and its symbol.
C2_ResultFromOneSnapshot ==
    (reader.pc = "done" /\ DOMAIN reader.result[1] = CostFields) =>
        \E s \in FeedSnapshots :
            LET b == BookOf(s)
                res == reader.result[1]
            IN  /\ b.asks # <<>> /\ b.bids # <<>>
                /\ res.timestamp = b.timestamp
                /\ res.symbol = b.symbol
                /\ <<res.mid_price>> = get_mid_price(b)
                /\ <<res.slippage.args[2]>> = get_spread(b)
                /\ <<res.slippage.args[4]>> = get_orderbook_imbalance(b)
                /\ <<res.maker_proportion.args[2]>> = get_spread(b)
                /\ <<res.maker_proportion.args[4]>> = get_orderbook_imbalance(b)
                /\ res.market_impact.args[5] = SumQty(b.bids) + SumQty(b.asks)

--------------------------------------------------------------------------
(* Properties of the cost figures, checked under Spec *)

\* a call of simulate_market_order has returned a full result
Successful == reader.pc = "done" /\ DOMAIN reader.result[1] = CostFields

OtherSide(args) ==
    simulate_market_order(orderbook, fee_tiers,
        [args EXCEPT !.side = IF Lower(@) = "buy" THEN "sell" ELSE "buy"])

\* C16: on the same book with the same other arguments a buy executes at
\* mid_price + (slippage + temporary_impact) / quantity and a sell at
\* mid_price - (slippage + temporary_impact) / quantity, symmetric around the
\* mid price; apart from execution_price and the echoed side every field of
\* the two results is the same.
C16_BuySellSymmetry ==
    Successful =>
        LET res == Numbers(reader.result[1])
            other == OtherSide(reader.args)
            oth == Numbers(other.result[1])
            shift == RatDiv(RatAdd(res.slippage, res.market_impact.temporary_impact),
                            FromInt(res.quantity))
            buy == IF Lower(res.side) = "buy" THEN res ELSE oth
            sell == IF Lower(res.side) = "buy" THEN oth ELSE res
        IN  /\ other.pc = "done"
            /\ DOMAIN other.result[1] = CostFields
            /\ res.quantity > 0 =>
                   /\ buy.execution_price = RatAdd(res.mid_price, shift)
                   /\ sell.execution_price = RatSub(res.mid_price, shift)
                   /\ RatAdd(buy.execution_price, sell.execution_price)
                          = RatMul(Rat(2, 1), res.mid_price)
            /\ \A f \in CostFields \ {"side", "execution_price"} : res[f] = oth[f]

\* an upper-case BUY of quantity 1 on the book of S1
C16_Witness ==
    /\ Successful
    /\ feed.data = Some(S1)
    /\ reader.args.side = "BUY"
    /\ reader.args.quantity = 1
    /\ RatLt(reader.result[1].mid_price, Numbers(reader.result[1]).execution_price)

--------------------------------------------------------------------------
(* Properties of the fee model, checked under SpecFee *)

\* C11 as claimed: in every fee table reachable by overrides, get_fee_rate
\* returns a rate for every exchange, market type, tier and bucket; it never
\* raises.
C11_FeeRateNeverRaises ==
    ret.op = "get_fee_rate" => ret.val.ok

\* the keys the claimed resolution selects in the table ft: each level falls
\* back on its own
ResolvedKeys(ft, exchange, market_type, fee_tier, is_maker) ==
    LET ex == IF exchange \in DOMAIN ft THEN exchange ELSE "OKX"
        mt == IF market_type \in DOMAIN ft[ex] THEN market_type ELSE "spot"
        bucket == IF is_maker THEN "maker" ELSE "taker"
        has_bucket == mt \in DOMAIN ft[ex] /\ bucket \in DOMAIN ft[ex][mt]
        tier == IF has_bucket /\ fee_tier \in DOMAIN ft[ex][mt][bucket]
                THEN fee_tier ELSE "VIP0"
    IN  [exchange |-> ex, market_type |-> mt, bucket |-> bucket, tier |-> tier,
         present |-> has_bucket /\ tier \in DOMAIN ft[ex][mt][bucket]]

\* C12 as claimed: get_fee_rate returns the table entry of the selected
\* bucket at the resolved keys: the given exchange or else 'OKX', the given
\* market type of that exchange or else its 'spot', the given tier of that
\* market or else its 'VIP0'.
C12_IndependentFallback ==
    ret.op = "get_fee_rate" =>
        LET k == ResolvedKeys(fee_tiers, ret.args[1], ret.args[2], ret.args[3],
                              ret.args[4])
        IN  /\ k.present
            /\ ret.val = Ok(fee_tiers[k.exchange][k.market_type][k.bucket][k.tier])

\* the rates a structure holds
RatesOf(structure) ==
    UNION {UNION {{structure[m][b][t] : t \in DOMAIN structure[m][b]} :
                      b \in DOMAIN structure[m]} :
               m \in DOMAIN structure}

\* C13: add_exchange_fee_tiers(exchange, structure) makes the structure the
\* whole entry of that exchange, so every rate then read for that exchange is
\* a rate of the structure, and leaves the entry of every other exchange as
\* it was.
C13_OverrideReplacesExchange ==
    [][ret'.op = "add_exchange_fee_tiers" =>
          LET exchange == ret'.args[1]
              structure == ret'.args[2]
          IN  /\ DOMAIN fee_tiers' = DOMAIN fee_tiers \cup {exchange}
              /\ fee_tiers'[exchange] = structure
              /\ \A other \in DOMAIN fee_tiers \ {exchange} :
                     fee_tiers'[other] = fee_tiers[other]
              /\ \A m \in MarketTypes, t \in FeeTierArgs, is_maker \in BOOLEAN :
                     LET rate == get_fee_rate(fee_tiers', exchange, m, t, is_maker)
                     IN  rate.ok => rate.val \in RatesOf(structure)]_vars

\* the default structure of OKX was replaced by one without a spot market
\* while Binance holds a structure of its own
C13_Witness ==
    /\ ret.op = "add_exchange_fee_tiers"
    /\ ret.args = <<"OKX", NoSpotStructure>>
    /\ fee_tiers["OKX"] = NoSpotStructure
    /\ "Binance" \in DOMAIN fee_tiers
    /\ fee_tiers["Binance"] = FullStructure

\* C14 as claimed: for every order value and maker proportion in [0, 1]
\* calculate_fee returns maker_fee = orderValue * makerProportion * makerRate,
\* taker_fee = orderValue * (1 - makerProportion) * takerRate, total_fee =
\* maker_fee + taker_fee, and effective_rate = total_fee / orderValue for
\* every order value other than 0, effective_rate = 0 for the order value 0.
C14_FeeArithmetic ==
    (ret.op = "calculate_fee" /\ ret.val.ok) =>
        LET orderValue == ret.args[1]
            makerProportion == ret.args[5]
            makerRate == RateOf(get_fee_rate(fee_tiers, ret.args[2], ret.args[3],
                                             ret.args[4], TRUE).val)
            takerRate == RateOf(get_fee_rate(fee_tiers, ret.args[2], ret.args[3],
                                             ret.args[4], FALSE).val)
            fee == ret.val.val
        IN  /\ fee.maker_fee = RatMul(RatMul(orderValue, makerProportion), makerRate)
            /\ fee.taker_fee =
                   RatMul(RatMul(orderValue, RatSub(Rat(1, 1), makerProportion)),
                          takerRate)
            /\ fee.total_fee = RatAdd(fee.maker_fee, fee.taker_fee)
            /\ fee.effective_rate =
                   IF orderValue[1] # 0 THEN RatDiv(fee.total_fee, orderValue)
                   ELSE Rat(0, 1)

--------------------------------------------------------------------------
(* Properties of the latency records, checked under SpecLatency *)

\* the last n entries of a list, in their order
MostRecent(times, n) ==
    [i \in 1..Min(n, Len(times)) |-> times[Len(times) - Min(n, Len(times)) + i]]

\* the mean of a list, 0 for the empty list
Mean(times) ==
    IF Len(times) = 0 THEN Rat(0, 1)
    ELSE Rat(QtyOver([i \in 1..Len(times) |-> <<i, times[i]>>], 1..Len(times)),
             Len(times))

\* C17: the latency list of the Orderbook and the processing_times list of
\* the TradeSimulator hold at most RingCapacity (1000 in the code) entries,
\* the most recent ones in arrival order, so a record arriving at a full list
\* evicts the oldest; each get_average_processing_time returns the mean of
\* its list, 0 for an empty one; update_orderbook returns a latency > 0.
C17_LatencyBuffers ==
    /\ Len(orderbook.processing_times) <= RingCapacity
    /\ Len(sim_times) <= RingCapacity
    /\ ret.op = "update_orderbook" =>
           /\ orderbook.processing_times
                  = MostRecent(Append(ret.before[1], ret.args[1]), RingCapacity)
           /\ sim_times = MostRecent(Append(ret.before[2], ret.val[1]), RingCapacity)
           /\ ret.val[1] > 0
           /\ ret.val[1] >= ret.args[2]
    /\ ret.op = "Orderbook.get_average_processing_time" =>
           ret.val = Some(Mean(orderbook.processing_times))
    /\ ret.op = "TradeSimulator.get_average_processing_time" =>
           ret.val = Some(Mean(sim_times))

\* an update arrived at a full list and evicted its oldest entry, which
\* differed from the entries kept
C17_Witness ==
    /\ ret.op = "update_orderbook"
    /\ Len(ret.before[1]) = RingCapacity
    /\ Len(orderbook.processing_times) = RingCapacity
    /\ ret.before[1][1] # ret.before[1][2]
    /\ orderbook.processing_times[1] = ret.before[1][2]
    /\ orderbook.processing_times[RingCapacity] = ret.args[1]
    /\ ret.args[2] < 0

--------------------------------------------------------------------------
(* Properties of the execution schedule, checked under SpecSchedule.        *)

ScheduleReturned == ret.op = "calculate_optimal_execution_schedule"

\* the inventory left at time point i when the returned trade sizes are
\* subtracted one after the other from total_size
RECURSIVE RunningRemaining(_, _, _)
RunningRemaining(total_size, trade_sizes, i) ==
    IF i = 1 THEN total_size
    ELSE NpSub(RunningRemaining(total_size, trade_sizes, i - 1), trade_sizes[i - 1])

\* the trade sizes of the branch taken, before the residual adjustment
BranchSizes(total_size, time_horizon, alpha) ==
    LET n == Intervals(time_horizon)
    IN  IF alpha[1] = 0 THEN RiskNeutral(total_size, n)[2]
        ELSE RiskAverse(total_size, time_horizon, Linspace(time_horizon, n), alpha,
                        temporary_impact_factor)[2]

\* C18: for every total size, time horizon and volatility, in both branches,
\* the returned trade sizes sum to total_size, the inventory left by running
\* subtraction is total_size at the first time point and 0 at the last, and
\* only the final slice can differ from the branch's own trade size.
C18_ScheduleCompletes ==
    ScheduleReturned =>
        LET total_size == ret.args[1]
            sizes == ret.val.trade_sizes
            n == Len(sizes)
        IN  /\ NpSum(sizes) = total_size
            /\ RunningRemaining(total_size, sizes, 1) = total_size
            /\ RunningRemaining(total_size, sizes, n) = Rat(0, 1)
            /\ \A i \in 1..(n - 1) :
                   sizes[i] = BranchSizes(total_size, ret.args[2], ret.val.alpha)[i]

\* C19 as stated: in the risk-averse branch each slice before the last trades
\* the inventory decrement between consecutive time points and the last slice
\* trades the inventory remaining at the second-to-last time point.
C19_LastSliceCompletes ==
    (ScheduleReturned /\ ret.val.alpha[1] > 0) =>
        LET sizes == ret.val.trade_sizes
            remaining_sizes == ret.val.remaining_sizes
            n == Len(sizes)
        IN  /\ \A i \in 1..(n - 1) :
                   sizes[i] = NpSub(remaining_sizes[i], remaining_sizes[i + 1])
            /\ sizes[n] = remaining_sizes[n - 1]

\* C19 amended: in the risk-averse branch each slice before the last trades
\* the inventory decrement between consecutive time points and the last slice
\* trades the inventory remaining at the last time point; for a time horizon
\* other than 0 that inventory is 0, so the slice before the last trades the
\* whole inventory remaining at the second-to-last time point.
C19_RiskAverseSlices ==
    (ScheduleReturned /\ ret.val.alpha[1] > 0) =>
        LET sizes == ret.val.trade_sizes
            remaining_sizes == ret.val.remaining_sizes
            n == Len(sizes)
        IN  /\ \A i \in 1..(n - 1) :
                   sizes[i] = NpSub(remaining_sizes[i], remaining_sizes[i + 1])
            /\ sizes[n] = remaining_sizes[n]
            /\ ret.args[2][1] # 0 =>
                   /\ remaining_sizes[n] = Rat(0, 1)
                   /\ sizes[n - 1] = remaining_sizes[n - 1]

C19_Witness ==
    /\ ScheduleReturned
    /\ ret.val.alpha[1] > 0
    /\ Len(ret.val.trade_sizes) >= 3
    /\ LET remaining_sizes == ret.val.remaining_sizes
           n == Len(remaining_sizes)
       IN  /\ ~IsNaN(remaining_sizes[n - 1])
           /\ remaining_sizes[n - 1][1] > 0
           /\ ret.val.trade_sizes[n] = Rat(0, 1)

\* floor of a rational
Floor(x) == x[1] \div x[2]

\* C20: the call returns n = max(floor(4 * time_horizon), 2) time points and n
\* trade sizes, the time points evenly spaced from 0 to time_horizon; in the
\* risk-neutral branch each of the first n - 1 slices trades
\* total_size / (n - 1) and the last slice trades 0.
C20_ScheduleShape ==
    ScheduleReturned =>
        LET total_size == ret.args[1]
            time_horizon == ret.args[2]
            times == ret.val.times
            sizes == ret.val.trade_sizes
            n == Max(Floor(RatMul(time_horizon, Rat(4, 1))), 2)
        IN  /\ Len(times) = n
            /\ Len(sizes) = n
            /\ times[1] = Rat(0, 1)
            /\ times[n] = time_horizon
            /\ \A i \in 1..(n - 1) :
                   RatSub(times[i + 1], times[i]) = RatSub(times[2], times[1])
            /\ ret.val.alpha[1] = 0 =>
                   /\ \A i \in 1..(n - 1) :
                          sizes[i] = RatDiv(total_size, Rat(n - 1, 1))
                   /\ sizes[n] = Rat(0, 1)

C20_Witness ==
    /\ ScheduleReturned
    /\ ret.val.alpha[1] = 0
    /\ ret.args[1][1] > 0
    /\ Len(ret.val.times) = 5
    /\ ret.val.trade_sizes[4] = RatDiv(ret.args[1], Rat(4, 1))

--------------------------------------------------------------------------
(* Properties of the two estimators, checked under SpecEstimators *)

FitOps == {"SlippageModel.fit", "MakerTakerModel.fit"}

\* the estimator object a recorded call was made on
EstimatorOf(op, ms) ==
    IF op \in {"SlippageModel.fit", "estimate_slippage"}
    THEN ms.slippage_model ELSE ms.maker_taker_model

\* the heuristic formula of the estimator a recorded estimate was made on
HeuristicOf(op, x) ==
    IF op = "estimate_slippage" THEN estimate_slippage(x[1], x[2], x[3], x[4])
    ELSE estimate_maker_proportion(x[1], x[2], x[3], x[4])

\* C21: for both estimators, fit with fewer than 10 samples raises nothing
\* and changes nothing (an unfitted estimator stays unfitted); an estimate on
\* an unfitted estimator returns the value of the heuristic formula and never
\* raises; an estimate takes the fitted path exactly when is_fitted is set,
\* and is_fitted is set exactly by a fit with at least 10 samples that
\* returned without raising.
C21_FitAndFallback ==
    [][/\ (ret'.op \in FitOps /\ ret'.args[1].rows < 10) =>
              /\ ret'.val = Ok(None)
              /\ models' = models
       /\ ret'.op \in FitOps =>
              LET before == EstimatorOf(ret'.op, models)
                  after == EstimatorOf(ret'.op, models')
              IN  after.is_fitted =
                      (before.is_fitted \/ (ret'.args[1].rows >= 10 /\ ret'.val.ok))
       /\ ret'.op \in {"estimate_slippage", "estimate_maker_proportion"} =>
              LET m == EstimatorOf(ret'.op, models)
              IN  /\ models' = models
                  /\ ret'.val.fitted = m.is_fitted
                  /\ ~m.is_fitted =>
                         /\ ret'.val.ok
                         /\ ret'.val.val = HeuristicOf(ret'.op, ret'.args)
       /\ ret'.op = "SlippageModel" => ~models'.slippage_model.is_fitted]_vars

\* an estimate by the heuristic on an estimator whose fit with 10 or more
\* samples raised, while the other estimator is fitted
C21_Witness ==
    /\ ret.op = "estimate_maker_proportion"
    /\ ~ret.val.fitted
    /\ ret.val.ok
    /\ models.maker_taker_model.scaler = "fitted"
    /\ models.slippage_model.is_fitted

KnownRegressionTypes == {"linear", "quantile"}

\* C22: SlippageModel(regression_type) with a type other than 'linear' or
\* 'quantile' fails at construction, so no SlippageModel object with an unknown
\* regression type exists (to be fitted or asked for an estimate).
C22_UnknownTypeFailsAtConstruction ==
    /\ (ret.op = "SlippageModel" /\ ret.args[1] \notin KnownRegressionTypes) =>
           ~ret.val.ok
    /\ models.slippage_model.regression_type \in KnownRegressionTypes

InUnitInterval(x) == ~IsNaN(x) /\ RatLe(Rat(0, 1), x) /\ RatLe(x, Rat(1, 1))

\* C23: estimate_maker_proportion returns a value in [0, 1] for every order
\* size, spread, volatility and imbalance, fitted or not, so the maker share
\* and the taker share calculate_fee applies to the order value are each in
\* [0, 1] and sum to 1.
C23_MakerProportionInUnitInterval ==
    ret.op = "estimate_maker_proportion" =>
        /\ ret.val.ok
        /\ InUnitInterval(ret.val.val)
        /\ LET shares == FeeBreakdown(Rat(1, 1), ret.val.val, Rat(1, 1), Rat(1, 1))
           IN  /\ InUnitInterval(shares.maker_fee)
               /\ InUnitInterval(shares.taker_fee)
               /\ RatAdd(shares.maker_fee, shares.taker_fee) = Rat(1, 1)

\* the heuristic's sum is below 0 (volatility 5) and the estimate is the bound 0
C23_Witness ==
    /\ ret.op = "estimate_maker_proportion"
    /\ ~ret.val.fitted
    /\ ret.args[3] = Rat(5, 1)
    /\ ret.val.val = Rat(0, 1)

--------------------------------------------------------------------------
(* Properties of the risk-aversion comparison, checked under SpecCompare *)

\* C24: compare_risk_aversion never changes the risk_aversion of the shared
\* AlmgrenChrissModel: at any point of the comparison the model holds the risk
\* aversion it was constructed with, and a calculate_market_impact or
\* calculate_optimal_execution_schedule call of another thread computes with it.
C24_ComparisonLeavesSharedModel ==
    /\ models.market_impact_model.risk_aversion = comparison.constructed
    /\ ret.op \in {"calculate_market_impact", "calculate_optimal_execution_schedule"} =>
           ret.risk_aversion = comparison.constructed

\* C30: when compare_risk_aversion returns, the model's risk_aversion is the
\* value it had when the call started (the value of construction, which every
\* call of the run starts from), for every list of risk aversions, the empty
\* one included; no step writes one of the other three parameters.
C30_RiskAversionRestored ==
    /\ [](comparison.pc \in {"idle", "store_original", "returned"} =>
              models.market_impact_model.risk_aversion = comparison.constructed)
    /\ [][LET before == models.market_impact_model
              after == models'.market_impact_model
          IN  /\ after.temporary_impact_factor = before.temporary_impact_factor
              /\ after.permanent_impact_factor = before.permanent_impact_factor
              /\ after.market_vol_factor = before.market_vol_factor]_vars

\* a comparison of two risk aversions, both different from the model's own,
\* has returned with both curves plotted
C30_Witness ==
    /\ comparison.pc = "returned"
    /\ Len(comparison.plotted) = 2
    /\ \A i \in 1..2 : comparison.args[1].risk_aversions[i] # comparison.constructed
    /\ models.market_impact_model.risk_aversion = comparison.constructed

--------------------------------------------------------------------------
(* Further properties of simulate_market_order and update, checked under Spec *)

\* what a call returns apart from the processing time it measured
Outcome(r) ==
    IF r.pc = "raised" THEN <<"raised", r.exc>>
    ELSE IF "processing_time" \in DOMAIN r.result[1]
    THEN <<"done", [r.result[1] EXCEPT !.processing_time = 0]>>
    ELSE <<"done", r.result[1]>>

\* C25: simulate_market_order, whatever it returns, leaves the order book
\* (levels, timestamp, exchange, symbol, latency buffer), the simulator's
\* latency record, the fee table, the Almgren-Chriss parameters and both
\* estimators as they were, and a second call with the same arguments and no
\* update in between returns the same result apart from processing_time.
C25_SimulateIsReadOnly ==
    [][(reader.pc = "idle" /\ reader'.pc \in {"done", "raised"}) =>
          /\ orderbook' = orderbook
          /\ sim_times' = sim_times
          /\ fee_tiers' = fee_tiers
          /\ models' = models
          /\ \A t \in {1, 2} :
                 Outcome(simulate_market_order(orderbook', fee_tiers',
                                               [reader'.args EXCEPT !.t = t]))
                     = Outcome(reader')]_vars

\* a full cost estimate returned on a book that has recorded latencies, with an
\* overridden fee table
C25_Witness ==
    /\ Successful
    /\ orderbook.processing_times # <<>>
    /\ sim_times # <<>>
    /\ fee_tiers # DefaultFeeTiers
    /\ ~models.slippage_model.is_fitted

--------------------------------------------------------------------------
(* Properties of failing updates, checked under SpecIngest *)

\* C26: an update call that fails (a price or a quantity that is no number, a
\* malformed level) leaves the whole Orderbook as it was: timestamp, exchange,
\* symbol, asks, bids and the latency buffer.
C26_FailedUpdateLeavesBook ==
    (ret.op = "update_orderbook" /\ ~ret.val.ok) => orderbook = ret.before

--------------------------------------------------------------------------
(* Properties of the invalid-metrics result, checked under SpecThreads *)

\* C27: a simulate_market_order call that no step of an update overlaps
\* returns the empty-order-book error or a full cost estimate, never the
\* invalid-metrics error; the invalid-metrics error is returned only by a call
\* during which an update emptied a side between the emptiness check and the
\* metric reads.
C27_InvalidMetricsOnlyWhenEmptied ==
    /\ (reader.pc \in {"done", "raised"} /\ reader.during = "none") =>
           /\ reader.pc = "done"
           /\ \/ reader.result = Some(ErrorEmpty)
              \/ DOMAIN reader.result[1] = CostFields
    /\ (reader.pc = "done" /\ reader.result = Some(ErrorMetrics)) =>
           reader.during = "emptied"

\* an uninterrupted call on a filled book, after an update that ran to its end
C27_Witness ==
    /\ reader.pc = "done"
    /\ reader.during = "none"
    /\ DOMAIN reader.result[1] = CostFields
    /\ feed.pc = "idle"
    /\ sim_times # <<>>

--------------------------------------------------------------------------
(* Properties of the websocket client, checked under SpecTransport *)

\* some price or quantity of the levels is no decimal string
HoldsUnparsable(levels) ==
    \E i \in 1..Len(levels) : \E j \in 1..Len(levels[i]) :
        levels[i][j] \notin {"0", "1", "1.0", "2", "3"}

\* the frames C28 is about: no valid JSON, a required key missing, or a price
\* or quantity that cannot be parsed
Faulty(m) ==
    \/ ~m.json
    \/ \E k \in {"timestamp", "exchange", "symbol", "asks", "bids"} :
           k \notin DOMAIN m.data
    \/ HoldsUnparsable(m.data.asks)
    \/ HoldsUnparsable(m.data.bids)

\* C28: a received frame that is no valid JSON, lacks one of timestamp,
\* exchange, symbol, asks, bids, or holds an unparsable price or quantity is
\* dropped: the user callback is not invoked, the order book (and the
\* simulator's latency record) stays as it was, and the client goes on
\* receiving on the same connection.
C28_FaultyFrameDropped ==
    [][(client.pc = "receiving" /\ ret' # ret /\ ret'.op = "on_message"
            /\ Faulty(ret'.args[1]))
       => /\ ret'.val = Ok(FALSE)
          /\ orderbook' = orderbook
          /\ sim_times' = sim_times
          /\ client' = client]_vars

\* a faulty frame was dropped on a connection that had already filled the book
C28_Witness ==
    /\ ret.op = "on_message"
    /\ Faulty(ret.args[1])
    /\ ret.val = Ok(FALSE)
    /\ orderbook.asks # <<>>
    /\ orderbook = ret.before
    /\ client.pc = "receiving"

--------------------------------------------------------------------------
(* Properties of the reconnection loop, checked under SpecConnect *)

\* connect has returned and left the client stopped
LoopEnded == client.pc = "ended" /\ ~client.running

\* no more than 10 attempts fail in a row
AtMostTenFailures ==
    /\ client.failed <= 10
    /\ client.connection_attempts <= 10

\* every successful connection resets the counter
ResetOnSuccess ==
    [][(client.pc = "attempt" /\ client'.pc = "receiving")
       => client'.connection_attempts = 0]_vars

\* once connect has returned no further attempt is made
NoAttemptAfterEnd == [][client.pc = "ended" => client'.pc = "ended"]_vars

\* after 10 failures in a row the loop ends
EndsAfterTenFailures == (client.failed = 10) ~> LoopEnded

\* after disconnect was called the loop ends
EndsAfterDisconnect == client.disconnected ~> LoopEnded

\* C29: connect makes at most 10 consecutive failed attempts; the counter is
\* reset to 0 by every successful connection; once 10 attempts in a row have
\* failed, or after disconnect was called, the loop eventually ends with
\* running = False and no further attempt is made.
C29_ConnectTerminates ==
    /\ []AtMostTenFailures
    /\ ResetOnSuccess
    /\ NoAttemptAfterEnd
    /\ EndsAfterTenFailures
    /\ EndsAfterDisconnect

==========================================================================
